---- MODULE Spec2Model ----
(***************************************************************************)
(* A model of CodeGrapher (code_grapher.py): extract_code, the recursive   *)
(* import resolver and the token-budget pass, run against small file       *)
(* systems.                                                                *)
(*                                                                         *)
(* Text (source code, paths, names) is a sequence of one-character         *)
(* strings, so that token counting, line slicing, path joining, prefix and *)
(* substring tests are computed the way the code computes them.            *)
(* Optional values are <<>> (None) or <<v>>.                               *)
(***************************************************************************)
EXTENDS Integers, Sequences, FiniteSets, TLC

VARIABLES
    fs,                  \* the file system and import environment (never changes)
    token_limit,         \* self.token_limit
    visited_files,       \* self.visited_files
    referenced_objects,  \* self.referenced_objects
    pc,                  \* "idle", "resolve", "prioritize" or "done"
    args,                \* the arguments of the running / last extract_code call
    main_object,         \* extract_code's main_object
    project_root,        \* extract_code's normalised project_root
    stack,               \* the active _resolve_imports frames, innermost last
    result,              \* the result dictionary being assembled
    sorted_refs,         \* _prioritize_code: sorted_refs
    kept_refs,           \* _prioritize_code: kept_refs
    current_tokens,      \* _prioritize_code: current_tokens
    ref_i,               \* _prioritize_code: index of the next of sorted_refs
    returned,            \* what the last extract_code call gave its caller
    prev,                \* arguments and outcome of the call before
    ncalls,              \* extract_code calls made on this instance
    entered,             \* per file: how often _resolve_imports was entered
    extracted,           \* per file: how often all its declarations were appended
    walk_root,           \* the argument of the last find_all_python_files call
    python_files,        \* what the last find_all_python_files call returned
    mcp_request,         \* the request handle_mcp_request is at / was last given
    mcp_response,        \* what handle_mcp_request gave back for mcp_request
    nrequests            \* requests handed to handle_mcp_request so far

\* the state of the callers of extract_code's machinery: the file listing and
\* the request handler of agent.py
caller_vars == <<walk_root, python_files, mcp_request, mcp_response, nrequests>>

vars == <<fs, token_limit, visited_files, referenced_objects, pc, args,
          main_object, project_root, stack, result, sorted_refs, kept_refs,
          current_tokens, ref_i, returned, prev, ncalls, entered, extracted,
          caller_vars>>

----------------------------------------------------------------------------
(* Bounds of the model.                                                    *)

\* extract_code calls made on one CodeGrapher instance
MaxCalls == 2
\* index of the last file of the longest import chain f0 -> f1 -> ... -> fN
MaxChain == 7
\* body words of the class and of the function in the budget projects
MaxBody == 9
\* import statements spread over the files of a generated import graph
MaxImports == 2

----------------------------------------------------------------------------
(* Text.                                                                   *)

None == <<>>
Some(v) == <<v>>

NL == "\n"
Empty == <<>>

kw_class == <<"c","l","a","s","s"," ">>
kw_def == <<"d","e","f"," ">>
kw_import == <<"i","m","p","o","r","t"," ">>
kw_from == <<"f","r","o","m"," ">>
ext_py == <<".","p","y">>
indent4 == <<" "," "," "," ">>

RECURSIVE Concat(_)
\* "".join(parts)
Concat(parts) ==
    IF parts = <<>> THEN <<>> ELSE Head(parts) \o Concat(Tail(parts))

\* s.startswith(p)
StartsWith(s, p) ==
    /\ Len(p) <= Len(s)
    /\ \A k \in 1..Len(p) : s[k] = p[k]

\* s.endswith(p)
EndsWith(s, p) ==
    /\ Len(p) <= Len(s)
    /\ \A k \in 1..Len(p) : s[Len(s) - Len(p) + k] = p[k]

\* p in s (substring test)
Contains(s, p) ==
    \E o \in 0..(Len(s) - Len(p)) : \A k \in 1..Len(p) : s[o + k] = p[k]

IsSpace(c) == c \in {" ", "\n", "\t"}

\* s.strip() as far as startswith needs it: leading whitespace removed
LStrip(s) ==
    LET I == {k \in 1..Len(s) : ~IsSpace(s[k])}
    IN  IF I = {} THEN <<>>
        ELSE SubSeq(s, CHOOSE k \in I : \A m \in I : k <= m, Len(s))

\* the index of the first sep at or after position k of s, or Len(s) + 1
NextSep(s, sep, k) ==
    LET I == {m \in k..Len(s) : s[m] = sep}
    IN  IF I = {} THEN Len(s) + 1 ELSE CHOOSE m \in I : \A n \in I : m <= n

RECURSIVE SplitFrom(_, _, _)
SplitFrom(s, sep, k) ==
    LET e == NextSep(s, sep, k)
    IN  IF e > Len(s) THEN <<SubSeq(s, k, Len(s))>>
        ELSE <<SubSeq(s, k, e - 1)>> \o SplitFrom(s, sep, e + 1)

\* s.split(sep) for a one-character sep
Split(s, sep) == SplitFrom(s, sep, 1)

\* s.splitlines(): no line for the empty text, none after a final line break
splitlines(s) ==
    IF s = <<>> THEN <<>>
    ELSE LET parts == Split(s, NL)
         IN  IF parts[Len(parts)] = <<>> THEN SubSeq(parts, 1, Len(parts) - 1)
             ELSE parts

RECURSIVE JoinWith(_, _)
\* sep.join(parts)
JoinWith(parts, sep) ==
    IF parts = <<>> THEN <<>>
    ELSE IF Len(parts) = 1 THEN parts[1]
    ELSE parts[1] \o sep \o JoinWith(Tail(parts), sep)

RECURSIVE RemoveAll(_, _)
\* s.replace(p, ""): every occurrence of p is removed, left to right
RemoveAll(s, p) ==
    LET O == {o \in 0..(Len(s) - Len(p)) : \A k \in 1..Len(p) : s[o + k] = p[k]}
    IN  IF O = {} THEN s
        ELSE LET o == CHOOSE x \in O : \A y \in O : x <= y
             IN  SubSeq(s, 1, o) \o RemoveAll(SubSeq(s, o + Len(p) + 1, Len(s)), p)

----------------------------------------------------------------------------
(* _count_tokens: the text is split at runs of white space and of the      *)
(* punctuation ( ) [ ] { } : ; , . " ' and the non-empty pieces counted.   *)

TokenSeparators ==
    {" ", "\n", "\t", "(", ")", "[", "]", "{", "}", ":", ";", ",", ".", "\"", "'"}

_count_tokens(code_string) ==
    Cardinality({k \in 1..Len(code_string) :
        /\ code_string[k] \notin TokenSeparators
        /\ (k = 1 \/ code_string[k - 1] \in TokenSeparators)})

----------------------------------------------------------------------------
(* Paths (os.path).                                                        *)

SLASH == "/"

\* index of the last "/" of path (0 when there is none)
LastSlash(path) ==
    LET I == {k \in 1..Len(path) : path[k] = SLASH}
    IN  IF I = {} THEN 0 ELSE CHOOSE k \in I : \A m \in I : m <= k

\* os.path.dirname
dirname(path) ==
    LET k == LastSlash(path)
    IN  IF k = 0 THEN <<>> ELSE IF k = 1 THEN <<SLASH>> ELSE SubSeq(path, 1, k - 1)

\* os.path.basename
basename(path) == SubSeq(path, LastSlash(path) + 1, Len(path))

\* os.path.join(a, b) for a relative b
join(a, b) == IF a # <<>> /\ a[Len(a)] = SLASH THEN a \o b ELSE a \o <<SLASH>> \o b

\* os.path.normpath on an absolute path without "." and ".." segments:
\* empty segments (doubled and trailing slashes) are dropped
normpath(path) ==
    LET segs == SelectSeq(Split(path, SLASH), LAMBDA seg : seg # <<>>)
    IN  <<SLASH>> \o JoinWith(segs, <<SLASH>>)

\* os.path.abspath on an absolute path
abspath(path) == normpath(path)

\* d lies in the directory tree below root (a path-segment test)
IsDescendant(d, root) == StartsWith(d, join(root, <<>>)) /\ Len(d) > Len(join(root, <<>>))

----------------------------------------------------------------------------
(* Parsed files.  A file is its source text together with what ast.parse   *)
(* gives for it: the class and function declarations (in source order,     *)
(* with nesting depth and line span) and the import statements.            *)

q3 == <<"\"","\"","\"">>

RECURSIVE Words(_)
\* a body line of k words: "w, w, ..., w"
Words(k) == IF k = 0 THEN <<>> ELSE IF k = 1 THEN <<"w">> ELSE <<"w",","," ">> \o Words(k - 1)

RECURSIVE Indent(_)
Indent(d) == IF d = 0 THEN <<>> ELSE indent4 \o Indent(d - 1)

\* a declaration as written: name, type, nesting depth (1 = top level),
\* docstring and number of body words
DeclSpec(name, type, depth, doc, body) ==
    [name |-> name, type |-> type, depth |-> depth, doc |-> doc, body |-> body]

\* the source lines of one declaration (without the declarations nested in it)
DeclOwnLines(d) ==
    <<Indent(d.depth - 1)
        \o (IF d.type = "class" THEN kw_class \o d.name \o <<":">>
            ELSE kw_def \o d.name \o <<"(",")",":">>)>>
    \o (IF d.doc # <<>> THEN <<Indent(d.depth) \o q3 \o d.doc \o q3>> ELSE <<>>)
    \o (IF d.body > 0 THEN <<Indent(d.depth) \o Words(d.body)>> ELSE <<>>)

ImportStmt(names) == [kind |-> "import", module |-> None, names |-> names]
ImportFromStmt(module, names) == [kind |-> "from", module |-> module, names |-> names]

\* the source line of an import statement
ImportLine(st) ==
    IF st.kind = "import" THEN kw_import \o JoinWith(st.names, <<","," ">>)
    ELSE kw_from \o (IF st.module = None THEN <<".">> ELSE st.module[1])
         \o <<" ">> \o kw_import \o JoinWith(st.names, <<","," ">>)

\* a parseable file: imports first, then the declarations
MkFile(imports, specs) ==
    LET importLines == [k \in 1..Len(imports) |-> ImportLine(imports[k])]
        own == [k \in 1..Len(specs) |-> DeclOwnLines(specs[k])]
        lines == importLines \o Concat(own)
        start(k) == Len(imports) + Len(Concat(SubSeq(own, 1, k - 1))) + 1
        \* the declaration ends before the next one that is not nested in it
        last(k) ==
            LET After == {m \in (k + 1)..Len(specs) : specs[m].depth <= specs[k].depth}
            IN  IF After = {} THEN Len(lines)
                ELSE start(CHOOSE m \in After : \A n \in After : m <= n) - 1
    IN  [parses |-> TRUE,
         source |-> JoinWith(lines, <<NL>>) \o <<NL>>,
         docstring |-> <<>>,
         decls |-> [k \in 1..Len(specs) |->
                      [name |-> specs[k].name, type |-> specs[k].type,
                       depth |-> specs[k].depth, lineno |-> start(k),
                       end_lineno |-> last(k), docstring |-> specs[k].doc]],
         imports |-> imports]

\* a file that exists and does not parse
BadFile ==
    [parses |-> FALSE, source |-> <<"d","e","f"," ","(",NL>>, docstring |-> <<>>,
     decls |-> <<>>, imports |-> <<>>]

\* the ClassDef / FunctionDef nodes in the order ast.walk yields them:
\* breadth first, that is level by level, each level in source order
WalkDecls(file) ==
    Concat([d \in 1..Len(file.decls) |-> SelectSeq(file.decls, LAMBDA n : n.depth = d)])

----------------------------------------------------------------------------
(* The file system and the import environment.                             *)

\* os.path.exists for a module file
exists(f, path) == path \in DOMAIN f.files

\* os.path.exists(os.path.join(d, '.git'))
HasGit(f, d) == d \in f.git

\* os.walk(top): the directories at and below top, top down, with their files
walk(f, top) ==
    SelectSeq(f.dirs, LAMBDA d : d.path = top \/ IsDescendant(d.path, top))

\* importlib.util.find_spec(module_name): no spec, a spec with an origin,
\* or an exception
find_spec(f, module_name) ==
    LET S == {r \in f.find_spec : r.module = module_name}
    IN  IF S = {} THEN [module |-> module_name, origin |-> None, raises |-> FALSE]
        ELSE CHOOSE r \in S : TRUE

\* _parse_file: (ast_tree, source_code), or (None, None) when the file is
\* missing or does not parse
_parse_file(f, filepath) ==
    IF exists(f, filepath) /\ f.files[filepath].parses
    THEN [ok |-> TRUE, ast |-> f.files[filepath], source_code |-> f.files[filepath].source]
    ELSE [ok |-> FALSE, ast |-> BadFile, source_code |-> <<>>]

----------------------------------------------------------------------------
(* _is_external_library.                                                   *)

external_indicators ==
    { <<"/","u","s","r","/","l","i","b","/">>,
      <<"/","u","s","r","/","l","o","c","a","l","/","l","i","b","/">>,
      <<"s","i","t","e","-","p","a","c","k","a","g","e","s","/">>,
      <<"d","i","s","t","-","p","a","c","k","a","g","e","s","/">>,
      <<".","v","e","n","v","/">>,
      <<"v","e","n","v","/">>,
      <<"e","n","v","/">>,
      <<"/","l","i","b","/","p","y","t","h","o","n">>,
      <<"/","L","i","b","/","p","y","t","h","o","n">> }

_is_external_library(file_path) ==
    LET p == abspath(normpath(file_path))
    IN  \E indicator \in external_indicators : Contains(p, indicator)

----------------------------------------------------------------------------
(* find_all_python_files.                                                  *)

excluded_dirs ==
    { <<"_","_","p","y","c","a","c","h","e","_","_">>,
      <<"v","e","n","v">>,
      <<"e","n","v">>,
      <<".","v","e","n","v">>,
      <<".","e","n","v">>,
      <<"s","i","t","e","-","p","a","c","k","a","g","e","s">>,
      <<"d","i","s","t","-","p","a","c","k","a","g","e","s">>,
      <<"l","i","b">>,
      <<"L","i","b">>,
      <<"n","o","d","e","_","m","o","d","u","l","e","s">>,
      <<"b","u","i","l","d">>,
      <<"d","i","s","t">>,
      <<".","g","i","t">>,
      <<".","g","i","t","h","u","b">>,
      <<".","p","y","t","e","s","t","_","c","a","c","h","e">>,
      <<".","m","y","p","y","_","c","a","c","h","e">>,
      <<".","t","o","x">>,
      <<"e","g","g","-","i","n","f","o">> }

excluded_path_segments ==
    { <<"s","i","t","e","-","p","a","c","k","a","g","e","s">>,
      <<"d","i","s","t","-","p","a","c","k","a","g","e","s">>,
      <<"l","i","b","/","p","y","t","h","o","n">>,
      <<"L","i","b","/","p","y","t","h","o","n">> }

\* "d not in excluded_dirs and not d.startswith('.')"
DescendInto(d) == d \notin excluded_dirs /\ ~StartsWith(d, <<".">>)

\* the names of the directories on the way from top down to dir, dir's own
\* name last
NamesBelow(dir, top) ==
    Split(SubSeq(dir, Len(join(top, <<>>)) + 1, Len(dir)), SLASH)

\* os.walk(root_path) with "dirs[:]" cut down at every directory: a directory
\* below root_path is reached when every name on the way to it is kept
PrunedWalk(f, root_path) ==
    SelectSeq(f.dirs,
              LAMBDA d : \/ d.path = root_path
                         \/ /\ IsDescendant(d.path, root_path)
                            /\ \A k \in 1..Len(NamesBelow(d.path, root_path)) :
                                  DescendInto(NamesBelow(d.path, root_path)[k]))

\* "any(segment in root for segment in excluded_path_segments)"
HasExcludedSegment(root) == \E segment \in excluded_path_segments : Contains(root, segment)

\* the list of files find_all_python_files(root_path) returns
find_all_python_files(f, root_path_given) ==
    LET root_path == abspath(normpath(root_path_given))
        searched == SelectSeq(PrunedWalk(f, root_path),
                              LAMBDA d : /\ ~HasExcludedSegment(d.path)
                                         /\ StartsWith(abspath(d.path), root_path))
        found(d) ==
            SelectSeq([k \in 1..Len(d.files) |-> [file |-> d.files[k],
                                                  file_path |-> join(d.path, d.files[k])]],
                      LAMBDA e : /\ EndsWith(e.file, ext_py)
                                 /\ StartsWith(abspath(e.file_path), root_path)
                                 /\ ~_is_external_library(e.file_path))
    IN  Concat([k \in 1..Len(searched) |->
                   [m \in 1..Len(found(searched[k])) |-> found(searched[k])[m].file_path]])

----------------------------------------------------------------------------
(* _extract_object and the extraction of all declarations of a module.     *)

NoObject ==
    [name |-> <<>>, file |-> <<>>, type |-> "", code |-> <<>>, docstring |-> <<>>]

\* mutant: only the declaration's first line is taken as its code
_extract_object_header_only(ast_tree, source_code, object_name, file_path) ==
    LET nodes == SelectSeq(WalkDecls(ast_tree), LAMBDA n : n.name = object_name)
    IN  IF nodes = <<>> THEN None
        ELSE Some([name |-> nodes[1].name,
                   file |-> file_path,
                   type |-> nodes[1].type,
                   code |-> splitlines(source_code)[nodes[1].lineno],
                   docstring |-> nodes[1].docstring])

\* the first node ast.walk yields that is a class or function called
\* object_name, with the source lines lineno..end_lineno as its code;
\* None when there is none
_extract_object(ast_tree, source_code, object_name, file_path) ==
    LET nodes == SelectSeq(WalkDecls(ast_tree), LAMBDA n : n.name = object_name)
    IN  IF nodes = <<>> THEN None
        ELSE LET node == nodes[1]
                 lines == splitlines(source_code)
                 code_lines == SubSeq(lines, node.lineno, node.end_lineno)
             IN  Some([name |-> node.name,
                       file |-> file_path,
                       type |-> node.type,
                       code |-> JoinWith(code_lines, <<NL>>),
                       docstring |-> node.docstring])

\* obj with obj["reference_type"] = reference_type
Tagged(obj, reference_type) ==
    [name |-> obj.name, file |-> obj.file, type |-> obj.type, code |-> obj.code,
     docstring |-> obj.docstring, reference_type |-> reference_type,
     truncated |-> None]

\* for node in ast.walk(ast_tree): every ClassDef / FunctionDef node is looked
\* up by its name with _extract_object and the object found is appended
ExtractDeclarations(ast_tree, source_code, module_path, reference_type) ==
    LET nodes == WalkDecls(ast_tree)
    IN  [k \in 1..Len(nodes) |->
            Tagged(_extract_object(ast_tree, source_code, nodes[k].name, module_path)[1],
                   reference_type)]

----------------------------------------------------------------------------
(* _resolve_imports and the functions it calls.                            *)

max_import_depth == 5

RECURSIVE ClimbToGit(_, _, _)
\* the loop that looks for the directory holding '.git' above file_dir
ClimbToGit(f, dir, file_dir) ==
    IF dir = <<>> \/ HasGit(f, dir) THEN dir
    ELSE IF dirname(dir) = dir THEN file_dir
    ELSE ClimbToGit(f, dirname(dir), file_dir)

\* project_root as _resolve_imports computes it
ResolverRoot(f, file_dir) == ClimbToGit(f, file_dir, file_dir)

\* module_name.split('.')[-1]
LastComponent(module_name) ==
    LET parts == Split(module_name, ".") IN parts[Len(parts)]

\* module_name.split('.')[0]
FirstComponent(module_name) == Split(module_name, ".")[1]

\* the file an import of module_name in a file of file_dir resolves to:
\* the same-directory file, else the origin find_spec gives when it ends in
\* '.py'; None when neither exists or find_spec raises
LocateModule(f, module_name, file_dir) ==
    LET local_module_path == join(file_dir, LastComponent(module_name) \o ext_py)
        spec == find_spec(f, module_name)
    IN  IF exists(f, local_module_path) THEN Some(local_module_path)
        ELSE IF ~spec.raises /\ spec.origin # None /\ EndsWith(spec.origin[1], ext_py)
        THEN spec.origin
        ELSE None

\* mutant: the visited check of the import route never fires
AlreadyVisited_never(module_path, visited) == FALSE

\* "if module_path in self.visited_files: return"
AlreadyVisited(module_path, visited) == module_path \in visited

\* mutant: the recursion limit is one too high
MayRecurse_one_more(import_depth) == import_depth < 6

\* "if import_depth < 5" before the recursive _resolve_imports call
MayRecurse(import_depth) == import_depth < 5

\* _process_imported_object takes module_name, object_name, file_dir and
\* import_depth; _resolve_imports calls it with visited_in_call_stack as a
\* fifth argument
ProcessImportedObjectParams == <<"module_name", "object_name", "file_dir", "import_depth">>
ProcessImportedObjectCallArgs ==
    <<"module_name", "imported_name", "file_dir", "import_depth + 1", "visited_in_call_stack">>

\* the call raises TypeError when it passes more positional arguments than
\* the function has parameters
CallRaisesTypeError == Len(ProcessImportedObjectCallArgs) > Len(ProcessImportedObjectParams)

\* the directories os.walk(project_root) visits and _try_find_project_module
\* does not skip
SearchDirs(f, root) ==
    SelectSeq(walk(f, root), LAMBDA d :
        ~(\/ _is_external_library(d.path)
          \/ Contains(d.path, <<"_","_","p","y","c","a","c","h","e","_","_">>)
          \/ Contains(d.path, <<".","g","i","t">>)))

\* the files named base_module.py in those directories, in walk order
SearchHits(f, root, base_module) ==
    LET dirs == SearchDirs(f, root)
    IN  Concat([k \in 1..Len(dirs) |->
            IF \E n \in 1..Len(dirs[k].files) : dirs[k].files[n] = base_module \o ext_py
            THEN <<join(dirs[k].path, base_module \o ext_py)>> ELSE <<>>])

\* mutant: the tree search takes a file although it is already visited
ProjectModule_ignores_visited(f, root, base_module, visited) ==
    LET hits == SelectSeq(SearchHits(f, root, base_module), LAMBDA h :
                    /\ _parse_file(f, h).ok
                    /\ _parse_file(f, h).source_code # <<>>)
    IN  IF hits = <<>> THEN None ELSE Some(hits[1])

\* the first hit that is not yet visited and parses: the file
\* _try_find_project_module extracts; None when there is none.  A hit that
\* does not parse is passed over and the search goes on.
ProjectModule(f, root, base_module, visited) ==
    LET hits == SelectSeq(SearchHits(f, root, base_module), LAMBDA h :
                    /\ h \notin visited
                    /\ _parse_file(f, h).ok
                    /\ _parse_file(f, h).source_code # <<>>)
    IN  IF hits = <<>> THEN None ELSE Some(hits[1])

----------------------------------------------------------------------------
(* _prioritize_code.                                                       *)

\* mutant: functions rank before classes
type_score_swapped(obj) == IF obj.type = "class" THEN 1 ELSE 0

type_score(obj) == IF obj.type = "class" THEN 0 ELSE 1

\* priority_key: (type_score, size_score)
priority_key(obj) == <<type_score(obj), _count_tokens(obj.code)>>

\* tuple comparison a <= b
KeyLeq(a, b) == a[1] < b[1] \/ (a[1] = b[1] /\ a[2] <= b[2])

RECURSIVE sorted(_)
\* sorted(refs, key=priority_key): stable, equal keys keep their order
sorted(refs) ==
    IF refs = <<>> THEN <<>>
    ELSE LET rest == sorted(SubSeq(refs, 1, Len(refs) - 1))
             x == refs[Len(refs)]
             \* x goes after every element whose key is <= its own
             After == {k \in 1..Len(rest) : KeyLeq(priority_key(rest[k]), priority_key(x))}
             pos == IF After = {} THEN 0 ELSE CHOOSE k \in After : \A m \in After : m <= k
         IN  SubSeq(rest, 1, pos) \o <<x>> \o SubSeq(rest, pos + 1, Len(rest))

truncation_note ==
    <<"\"","\"","\"","\n"," "," "," "," ","#"," ",".",".","."," ","c","o","d","e"," ",
      "t","r","u","n","c","a","t","e","d"," ","d","u","e"," ","t","o"," ","t","o","k","e","n",
      " ","l","i","m","i","t">>

truncation_comment ==
    <<" ","(","t","r","u","n","c","a","t","e","d"," ","d","u","e"," ","t","o"," ",
      "t","o","k","e","n"," ","l","i","m","i","t",")">>

\* next((l for l in lines if l.strip().startswith(keyword)), "")
FirstLineStarting(lines, keyword) ==
    LET I == {k \in 1..Len(lines) : StartsWith(LStrip(lines[k]), keyword)}
    IN  IF I = {} THEN <<>> ELSE lines[CHOOSE k \in I : \A m \in I : k <= m]

\* the signature-and-docstring stand-in of a reference that does not fit
truncated_code(ref) ==
    LET lines == splitlines(ref.code)
        head == IF ref.type = "class" THEN FirstLineStarting(lines, kw_class)
                ELSE FirstLineStarting(lines, kw_def)
    IN  IF ref.type \in {"class", "function"}
        THEN head \o <<NL>> \o indent4 \o q3 \o ref.docstring \o truncation_note
        ELSE <<"#"," ">> \o ref.name \o truncation_comment

\* mutant: the running total is left out of the comparison
Fits_without_total(current, cost, limit) == cost <= limit

\* "if current_tokens + ref_tokens <= self.token_limit"
Fits(current, cost, limit) == current + cost <= limit

----------------------------------------------------------------------------
(* The file systems the model runs extract_code on.                        *)

MkFS(kind, files, dirs, git, specs) ==
    [kind |-> kind, files |-> files, dirs |-> dirs, git |-> git, find_spec |-> specs]

Digit(i) == <<"0","1","2","3","4","5","6","7","8","9">>[i + 1]

PyFile(dir, name) == join(dir, name \o ext_py)

\* "chain": /c/f0.py imports f1, f1 imports f2, ... up to fN; when closed the
\* last file imports f0 again
d_c == <<"/","c">>
ChainName(i) == <<"f", Digit(i)>>
ChainPath(i) == PyFile(d_c, ChainName(i))
ChainFS(n, closed) ==
    LET file(i) ==
            MkFile(IF i < n THEN <<ImportStmt(<<ChainName(i + 1)>>)>>
                   ELSE IF closed THEN <<ImportStmt(<<ChainName(0)>>)>> ELSE <<>>,
                   <<DeclSpec(<<"g", Digit(i)>>, "function", 1, <<>>, 1)>>)
    IN  MkFS("chain",
             [p \in {ChainPath(i) : i \in 0..n} |->
                 file(CHOOSE i \in 0..n : ChainPath(i) = p)],
             <<[path |-> d_c, files |-> [k \in 1..(n + 1) |-> ChainName(k - 1) \o ext_py]]>>,
             {}, {})

\* "budget": /b/t.py imports m; m.py defines function f, class C and
\* function g, with fb and cb body words in f and C
d_b == <<"/","b">>
n_m == <<"m">>
n_t == <<"t">>
BudgetFS(kind, cb, fb, doc) ==
    MkFS(kind,
         (PyFile(d_b, n_t) :> MkFile(<<ImportStmt(<<n_m>>)>>, <<>>))
         @@ (PyFile(d_b, n_m) :>
                MkFile(<<>>, <<DeclSpec(<<"f">>, "function", 1, <<>>, fb),
                               DeclSpec(<<"C">>, "class", 1, doc, cb),
                               DeclSpec(<<"g">>, "function", 1, <<>>, 2)>>)),
         <<[path |-> d_b, files |-> <<n_t \o ext_py, n_m \o ext_py>>]>>,
         {}, {})

\* "scenario": the target imports module m defining class C (200 tokens)
\* and function f (50 tokens)
ScenarioFS ==
    MkFS("scenario",
         (PyFile(d_b, n_t) :> MkFile(<<ImportStmt(<<n_m>>)>>, <<>>))
         @@ (PyFile(d_b, n_m) :>
                MkFile(<<>>, <<DeclSpec(<<"f">>, "function", 1, <<>>, 48),
                               DeclSpec(<<"C">>, "class", 1, <<"d","o","c">>, 197)>>)),
         <<[path |-> d_b, files |-> <<n_t \o ext_py, n_m \o ext_py>>]>>,
         {}, {})

\* "graph": /g/a.py, /g/b.py and /g/c.py; the import statements of a.py and
\* b.py are drawn from GraphStmts
d_g == <<"/","g">>
n_a == <<"a">>
n_b == <<"b">>
n_c == <<"c">>
GraphStmts ==
    { ImportStmt(<<n_a>>), ImportStmt(<<n_b>>), ImportStmt(<<n_c>>),
      ImportFromStmt(Some(n_b), <<<<"B">>>>) }
SeqsUpTo(S, n) == UNION {[1..k -> S] : k \in 0..n}
GraphFS(ia, ib) ==
    MkFS("graph",
         (PyFile(d_g, n_a) :> MkFile(ia, <<DeclSpec(<<"f","a">>, "function", 1, <<>>, 1)>>))
         @@ (PyFile(d_g, n_b) :> MkFile(ib, <<DeclSpec(<<"B">>, "class", 1, <<>>, 1)>>))
         @@ (PyFile(d_g, n_c) :> MkFile(<<>>, <<DeclSpec(<<"f","c">>, "function", 1, <<>>, 1)>>)),
         <<[path |-> d_g, files |-> <<n_a \o ext_py, n_b \o ext_py, n_c \o ext_py>>]>>,
         {}, {})

\* "layout": a repository /p (holding .git) with the package /p/a of the
\* target, the sibling directory /p/ab and the directory /p/a/env
d_p == <<"/","p">>
d_pa == <<"/","p","/","a">>
d_pab == <<"/","p","/","a","b">>
d_env == <<"/","p","/","a","/","e","n","v">>
n_e == <<"e">>
n_d == <<"d">>
LayoutFS ==
    MkFS("layout",
         (PyFile(d_pa, n_t) :>
              MkFile(<<ImportStmt(<<n_m, n_e>>), ImportStmt(<<<<"q",".","r">>>>)>>,
                     <<DeclSpec(<<"t","t">>, "function", 1, <<>>, 1)>>))
         @@ (PyFile(d_pab, n_m) :>
              MkFile(<<ImportStmt(<<n_d>>)>>, <<DeclSpec(<<"M">>, "class", 1, <<>>, 1)>>))
         @@ (PyFile(d_pab, n_d) :>
              MkFile(<<>>, <<DeclSpec(<<"d","d">>, "function", 1, <<>>, 1)>>))
         @@ (PyFile(d_env, n_e) :>
              MkFile(<<>>, <<DeclSpec(<<"e","e">>, "function", 1, <<>>, 1)>>)),
         <<[path |-> d_p, files |-> <<>>],
           [path |-> d_pa, files |-> <<n_t \o ext_py>>],
           [path |-> d_env, files |-> <<n_e \o ext_py>>],
           [path |-> d_pab, files |-> <<n_m \o ext_py, n_d \o ext_py>>]>>,
         {d_p},
         { [module |-> n_e, origin |-> Some(PyFile(d_env, n_e)), raises |-> FALSE],
           [module |-> <<"q",".","r">>, origin |-> None, raises |-> TRUE] })

\* "target": /t/t.py (a relative import, class T with method h, function h),
\* /t/bad.py that does not parse, and no /t/nope.py
d_t == <<"/","t">>
n_bad == <<"b","a","d">>
n_nope == <<"n","o","p","e">>
TargetFS ==
    MkFS("target",
         (PyFile(d_t, n_t) :>
              MkFile(<<ImportFromStmt(None, <<<<"x">>>>), ImportStmt(<<n_bad>>)>>,
                     <<DeclSpec(<<"T">>, "class", 1, <<"d","o","c">>, 0),
                       DeclSpec(<<"h">>, "function", 2, <<>>, 1),
                       DeclSpec(<<"h">>, "function", 1, <<>>, 2)>>))
         @@ (PyFile(d_t, n_bad) :> BadFile),
         <<[path |-> d_t, files |-> <<n_t \o ext_py, n_bad \o ext_py>>]>>,
         {}, {})

\* "nested": /n/t.py imports m; m.py defines class K with the methods k and
\* h, and after it a function h
d_n == <<"/","n">>
NestedFS ==
    MkFS("nested",
         (PyFile(d_n, n_t) :> MkFile(<<ImportStmt(<<n_m>>)>>, <<>>))
         @@ (PyFile(d_n, n_m) :>
                MkFile(<<>>, <<DeclSpec(<<"K">>, "class", 1, <<>>, 0),
                               DeclSpec(<<"k">>, "function", 2, <<>>, 1),
                               DeclSpec(<<"h">>, "function", 2, <<>>, 1),
                               DeclSpec(<<"h">>, "function", 1, <<>>, 2)>>)),
         <<[path |-> d_n, files |-> <<n_t \o ext_py, n_m \o ext_py>>]>>,
         {}, {})

\* "tree": directory /r holding a.py and n.txt, and below it any of the
\* directories of TreeDirs, each holding a.py and n.txt as well
d_r == <<"/","r">>
n_txt == <<"n",".","t","x","t">>
TreeDirs ==
    << <<"p","k","g">>,
       <<"p","k","g","/","s","u","b">>,
       <<"p","k","g","/","_","_","p","y","c","a","c","h","e","_","_">>,
       <<"v","e","n","v">>,
       <<".","h","i","d">>,
       <<"b","u","i","l","d">>,
       <<"b","u","i","l","d","/","x">>,
       <<"m","y","e","n","v">>,
       <<"m","y","l","i","b">>,
       <<"m","y","l","i","b","/","p","y","t","h","o","n","3">>,
       <<"x","s","i","t","e","-","p","a","c","k","a","g","e","s","x">> >>
TreeFS(S) ==
    LET below == SelectSeq(TreeDirs, LAMBDA d : d \in S)
        paths == <<d_r>> \o [k \in 1..Len(below) |-> join(d_r, below[k])]
    IN  MkFS("tree",
             [p \in {PyFile(paths[k], n_a) : k \in 1..Len(paths)} |-> MkFile(<<>>, <<>>)],
             [k \in 1..Len(paths) |-> [path |-> paths[k], files |-> <<n_a \o ext_py, n_txt>>]],
             {}, {})

\* a directory exists only inside an existing directory
TreeProjects ==
    {TreeFS(S) : S \in {X \in SUBSET {TreeDirs[k] : k \in 1..Len(TreeDirs)} :
                          \A d \in X : dirname(d) = <<>> \/ dirname(d) \in X}}

\* the directories find_all_python_files is asked to list
WalkRoots == {d_r, d_r \o <<SLASH>>, join(d_r, <<"p","k","g">>), join(d_r, <<"b","u","i","l","d">>)}

\* "twin": /w/t.py imports m; there is an m.py beside it and another one
\* in /w/s
d_w == <<"/","w">>
d_ws == <<"/","w","/","s">>
TwinFS ==
    MkFS("twin",
         (PyFile(d_w, n_t) :> MkFile(<<ImportStmt(<<n_m>>)>>, <<>>))
         @@ (PyFile(d_w, n_m) :>
                MkFile(<<>>, <<DeclSpec(<<"n","e","a","r">>, "function", 1, <<>>, 1)>>))
         @@ (PyFile(d_ws, n_m) :>
                MkFile(<<>>, <<DeclSpec(<<"f","a","r">>, "function", 1, <<>>, 1)>>)),
         <<[path |-> d_w, files |-> <<n_t \o ext_py, n_m \o ext_py>>],
           [path |-> d_ws, files |-> <<n_m \o ext_py>>]>>,
         {}, {})

\* "myenv": the target /v/myenv/t.py imports m, which lies beside it; the
\* directory name only ends with the text of a marker
d_v == <<"/","v","/","m","y","e","n","v">>
MyenvFS ==
    MkFS("myenv",
         (PyFile(d_v, n_t) :> MkFile(<<ImportStmt(<<n_m>>)>>, <<>>))
         @@ (PyFile(d_v, n_m) :>
                MkFile(<<>>, <<DeclSpec(<<"m","m">>, "function", 1, <<>>, 1)>>)),
         <<[path |-> d_v, files |-> <<n_t \o ext_py, n_m \o ext_py>>]>>,
         {}, {})

\* "detour": /k/f0.py imports f1 and f5; f1 imports f2, ... f4 imports f5,
\* and f5 imports f6.  f5 lies one import from the target and also at the
\* end of a path of five; long_first gives the order of the two names
d_k == <<"/","k">>
DetourPath(i) == PyFile(d_k, ChainName(i))
DetourFS(long_first) ==
    LET file(i) ==
            MkFile(IF i = 0
                   THEN <<ImportStmt(IF long_first THEN <<ChainName(1), ChainName(5)>>
                                     ELSE <<ChainName(5), ChainName(1)>>)>>
                   ELSE IF i < 6 THEN <<ImportStmt(<<ChainName(i + 1)>>)>> ELSE <<>>,
                   <<DeclSpec(<<"g", Digit(i)>>, "function", 1, <<>>, 1)>>)
    IN  MkFS("detour",
             [p \in {DetourPath(i) : i \in 0..6} |->
                 file(CHOOSE i \in 0..6 : DetourPath(i) = p)],
             <<[path |-> d_k, files |-> [k \in 1..7 |-> ChainName(k - 1) \o ext_py]]>>,
             {}, {})

Projects ==
    {ChainFS(n, closed) : n \in 6..MaxChain, closed \in BOOLEAN}
    \cup {BudgetFS("budget", cb, fb, <<>>) : cb \in 1..MaxBody, fb \in 1..MaxBody}
    \cup {ScenarioFS}
    \cup {GraphFS(g[1], g[2]) :
            g \in {h \in SeqsUpTo(GraphStmts, MaxImports) \X SeqsUpTo(GraphStmts, MaxImports) :
                      Len(h[1]) + Len(h[2]) <= MaxImports}}
    \cup {LayoutFS, TargetFS, NestedFS, TwinFS, MyenvFS}
    \cup {DetourFS(long_first) : long_first \in BOOLEAN}

----------------------------------------------------------------------------
(* The arguments extract_code is called with.                              *)

DefaultTokenLimit == 8000

Args(target_file, target_object, limit, root) ==
    [target_file |-> target_file, target_object |-> target_object,
     token_limit |-> limit, project_root |-> root]

CallArgs(f) ==
    CASE f.kind = "chain" ->
            {Args(ChainPath(i), None, None, None) : i \in 0..1}
      [] f.kind = "budget" ->
            {Args(PyFile(d_b, n_t), None, l, None) : l \in {None, Some(1), Some(8), Some(12), Some(20)}}
      [] f.kind = "scenario" ->
            {Args(PyFile(d_b, n_t), None, l, None) :
                l \in {None, Some(_count_tokens(f.files[PyFile(d_b, n_t)].source) + 100)}}
      [] f.kind = "graph" ->
            {Args(PyFile(d_g, n), None, None, None) : n \in {n_a, n_b}}
      [] f.kind = "layout" ->
            {Args(PyFile(d_pa, n_t), None, None, r) :
                r \in {None, Some(d_pa \o <<SLASH>>), Some(d_p)}}
      [] f.kind = "target" ->
            {Args(PyFile(d_t, n_t), o, None, None) :
                o \in {None, Some(<<>>), Some(<<"T">>), Some(<<"h">>), Some(<<"z">>)}}
            \cup {Args(PyFile(d_t, n), None, None, None) : n \in {n_bad, n_nope}}
      [] f.kind = "nested" ->
            {Args(PyFile(d_n, n_t), None, None, None)}
      [] f.kind = "twin" ->
            {Args(PyFile(d_w, n_t), None, None, None)}
      [] f.kind = "myenv" ->
            {Args(PyFile(d_v, n_t), None, None, None)}
      [] f.kind = "detour" ->
            {Args(DetourPath(0), None, None, None)}

----------------------------------------------------------------------------
(* State of one extract_code call.                                         *)

\* a _resolve_imports activation: the file, import_depth, the
\* visited_in_call_stack it was given (its own file added on entry), its
\* project_root, the import statement i and name j it is at, and whether the
\* call was made inside the try block of _process_imported_module
Frame(file, depth, cs, catch) ==
    [file |-> file, depth |-> depth, cs |-> cs, root |-> <<>>, i |-> 1, j |-> 1,
     phase |-> "enter", catch |-> catch]

Top == stack[Len(stack)]
Pop == SubSeq(stack, 1, Len(stack) - 1)
SetTop(fr) == [stack EXCEPT ![Len(stack)] = fr]

NoResult ==
    [main_object |-> NoObject, referenced_objects |-> <<>>, token_count |-> 0,
     token_limit |-> 0, truncated |-> None]

\* what extract_code hands its caller: a result dictionary, an {"error": ...}
\* dictionary, or an exception
Returned(kind, error, res) == [kind |-> kind, error |-> error, result |-> res]

NoCounts(f) == [p \in DOMAIN f.files |-> 0]

\* a CodeGrapher as its constructor leaves it, and nothing called yet
Fresh ==
    /\ token_limit = DefaultTokenLimit
    /\ visited_files = {}
    /\ referenced_objects = <<>>
    /\ pc = "idle"
    /\ args = None
    /\ main_object = NoObject
    /\ project_root = <<>>
    /\ stack = <<>>
    /\ result = NoResult
    /\ sorted_refs = <<>>
    /\ kept_refs = <<>>
    /\ current_tokens = 0
    /\ ref_i = 1
    /\ returned = Returned("none", "", None)
    /\ prev = None
    /\ ncalls = 0
    /\ entered = NoCounts(fs)
    /\ extracted = NoCounts(fs)
    /\ walk_root = None
    /\ python_files = <<>>
    /\ mcp_request = None
    /\ mcp_response = None
    /\ nrequests = 0

Init ==
    /\ fs \in Projects
    /\ Fresh

----------------------------------------------------------------------------
(* extract_code, up to the call of _resolve_imports.                       *)

\* mutant: visited_files survives from the call before
ResetVisited_kept(visited) == visited

\* "self.visited_files = set()"
ResetVisited(visited) == {}

\* "self.referenced_objects = []"
ResetReferenced(refs) == <<>>

\* "if token_limit is not None: self.token_limit = token_limit"
UpdatedLimit(current, override) == IF override # None THEN override[1] ELSE current

\* "if target_object:" - neither None nor the empty string
Wanted(target_object) == target_object # None /\ target_object[1] # <<>>

\* mutant: the target is not marked visited
MarkVisited_not(visited, target_file) == visited

\* "self.visited_files.add(target_file)" before import resolution starts
MarkVisited(visited, target_file) == visited \cup {target_file}

extract_code(a) ==
    /\ pc \in {"idle", "done"}
    /\ ncalls < MaxCalls
    /\ LET target_file == abspath(a.target_file)
           root == abspath(normpath(IF a.project_root = None THEN dirname(target_file)
                                    ELSE a.project_root[1]))
           parsed == _parse_file(fs, target_file)
           found == _extract_object(parsed.ast, parsed.source_code,
                                    a.target_object[1], target_file)
           module == [name |-> RemoveAll(basename(target_file), ext_py),
                      file |-> target_file,
                      type |-> "module",
                      code |-> parsed.source_code,
                      docstring |-> parsed.ast.docstring]
           error == IF ~parsed.ok THEN "Failed to parse file"
                    ELSE IF Wanted(a.target_object) /\ found = None
                    THEN "Object not found" ELSE ""
       IN  /\ token_limit' = UpdatedLimit(token_limit, a.token_limit)
           /\ project_root' = root
           /\ referenced_objects' = ResetReferenced(referenced_objects)
           /\ IF error # ""
              THEN /\ visited_files' = ResetVisited(visited_files)
                   /\ main_object' = NoObject
                   /\ stack' = <<>>
                   /\ returned' = Returned("error", error, None)
                   /\ pc' = "done"
              ELSE /\ visited_files' = MarkVisited(ResetVisited(visited_files), target_file)
                   /\ main_object' = IF Wanted(a.target_object) THEN found[1] ELSE module
                   /\ stack' = <<Frame(target_file, 0, {}, FALSE)>>
                   /\ returned' = Returned("none", "", None)
                   /\ pc' = "resolve"
    /\ args' = Some(a)
    /\ prev' = IF args = None THEN None ELSE Some([args |-> args[1], returned |-> returned])
    /\ ncalls' = ncalls + 1
    /\ result' = NoResult
    /\ sorted_refs' = <<>>
    /\ kept_refs' = <<>>
    /\ current_tokens' = 0
    /\ ref_i' = 1
    /\ entered' = NoCounts(fs)
    /\ extracted' = NoCounts(fs)
    /\ UNCHANGED fs

----------------------------------------------------------------------------
(* _resolve_imports.                                                       *)

\* "if file_path in visited_in_call_stack: return"
InCallStack(file_path, visited_in_call_stack) == file_path \in visited_in_call_stack

\* "if import_depth > max_import_depth: return"
TooDeep(import_depth) == import_depth > max_import_depth

Resolving == pc = "resolve" /\ stack # <<>>

\* the import statement the innermost activation is at
CurStmt == fs.files[Top.file].imports[Top.i]
AtStmt ==
    /\ Resolving
    /\ Top.phase = "loop"
    /\ Top.i <= Len(fs.files[Top.file].imports)

\* the frame moved on to the next imported name, or to the next statement
Advanced(fr, stmt) ==
    IF stmt.kind = "import" /\ fr.j < Len(stmt.names)
    THEN [fr EXCEPT !.j = @ + 1, !.phase = "loop"]
    ELSE [fr EXCEPT !.i = @ + 1, !.j = 1, !.phase = "loop"]

\* entry: the cycle guard, the depth guard and the search for the '.git' root
_resolve_imports ==
    /\ Resolving
    /\ Top.phase = "enter"
    /\ entered' = [entered EXCEPT ![Top.file] = @ + 1]
    /\ IF InCallStack(Top.file, Top.cs) \/ TooDeep(Top.depth)
       THEN stack' = Pop
       ELSE stack' = SetTop([Top EXCEPT !.cs = @ \cup {Top.file},
                                        !.root = ResolverRoot(fs, dirname(Top.file)),
                                        !.phase = "loop"])
    /\ UNCHANGED <<caller_vars, fs, token_limit, visited_files, referenced_objects, pc, args,
                   main_object, project_root, result, sorted_refs, kept_refs,
                   current_tokens, ref_i, returned, prev, ncalls, extracted>>

\* "import module_name": self._process_imported_module(module_name, file_dir,
\* import_depth + 1, visited_in_call_stack)
_process_imported_module ==
    /\ AtStmt
    /\ CurStmt.kind = "import"
    /\ LET module_name == CurStmt.names[Top.j]
           import_depth == Top.depth + 1
           located == LocateModule(fs, module_name, dirname(Top.file))
           module_path == located[1]
           parsed == _parse_file(fs, module_path)
           process == /\ located # None
                      /\ ~AlreadyVisited(module_path, visited_files)
                      /\ ~_is_external_library(module_path)
                      /\ parsed.ok
                      /\ parsed.source_code # <<>>
           waiting == [Top EXCEPT !.phase = "search"]
       IN  IF process
           THEN /\ visited_files' = visited_files \cup {module_path}
                /\ referenced_objects' = referenced_objects
                       \o ExtractDeclarations(parsed.ast, parsed.source_code,
                                              module_path, "import")
                /\ extracted' = [extracted EXCEPT ![module_path] = @ + 1]
                /\ stack' = IF MayRecurse(import_depth)
                            THEN Append(SetTop(waiting),
                                        Frame(module_path, import_depth, Top.cs, TRUE))
                            ELSE SetTop(waiting)
           ELSE /\ stack' = SetTop(waiting)
                /\ UNCHANGED <<visited_files, referenced_objects, extracted>>
    /\ UNCHANGED <<caller_vars, fs, token_limit, pc, args, main_object, project_root, result,
                   sorted_refs, kept_refs, current_tokens, ref_i, returned, prev,
                   ncalls, entered>>

\* self._try_find_project_module(module_name, project_root, file_dir): the
\* first unvisited parseable file named like the module in the tree below
\* project_root is extracted, and _resolve_imports is called for it with
\* import_depth 0 and the call stack {module_path}
_try_find_project_module ==
    /\ Resolving
    /\ Top.phase = "search"
    /\ LET stmt == CurStmt
           module_name == IF stmt.kind = "import" THEN stmt.names[Top.j] ELSE stmt.module[1]
           hit == ProjectModule(fs, Top.root, FirstComponent(module_name), visited_files)
           module_path == hit[1]
           parsed == _parse_file(fs, module_path)
           next == Advanced(Top, stmt)
       IN  IF hit # None
           THEN /\ visited_files' = visited_files \cup {module_path}
                /\ referenced_objects' = referenced_objects
                       \o ExtractDeclarations(parsed.ast, parsed.source_code,
                                              module_path, "project_import")
                /\ extracted' = [extracted EXCEPT ![module_path] = @ + 1]
                /\ stack' = Append(SetTop(next), Frame(module_path, 0, {module_path}, FALSE))
           ELSE /\ stack' = SetTop(next)
                /\ UNCHANGED <<visited_files, referenced_objects, extracted>>
    /\ UNCHANGED <<caller_vars, fs, token_limit, pc, args, main_object, project_root, result,
                   sorted_refs, kept_refs, current_tokens, ref_i, returned, prev,
                   ncalls, entered>>

\* "from module import name": the call of _process_imported_object passes
\* one positional argument more than the function takes, so it raises
\* TypeError before the function's body runs.  The exception unwinds to the
\* innermost enclosing try block of _process_imported_module, which ends
\* that function; with no such block it leaves extract_code.
_process_imported_object ==
    /\ AtStmt
    /\ CurStmt.kind = "from"
    /\ CurStmt.module # None
    /\ CallRaisesTypeError
    /\ LET Handlers == {k \in 1..Len(stack) : stack[k].catch}
           handler == CHOOSE k \in Handlers : \A m \in Handlers : m <= k
       IN  IF Handlers = {}
           THEN /\ stack' = <<>>
                /\ pc' = "done"
                /\ returned' = Returned("raised", "TypeError", None)
           ELSE /\ stack' = SubSeq(stack, 1, handler - 1)
                /\ UNCHANGED <<pc, returned>>
    /\ UNCHANGED <<caller_vars, fs, token_limit, visited_files, referenced_objects, args,
                   main_object, project_root, result, sorted_refs, kept_refs,
                   current_tokens, ref_i, prev, ncalls, entered, extracted>>

\* "from . import name": node.module is None, the statement is passed over
SkipRelativeImport ==
    /\ AtStmt
    /\ CurStmt.kind = "from"
    /\ CurStmt.module = None
    /\ stack' = SetTop(Advanced(Top, CurStmt))
    /\ UNCHANGED <<caller_vars, fs, token_limit, visited_files, referenced_objects, pc, args,
                   main_object, project_root, result, sorted_refs, kept_refs,
                   current_tokens, ref_i, returned, prev, ncalls, entered, extracted>>

\* the loop over the import statements is over: _resolve_imports returns
ResolveReturn ==
    /\ Resolving
    /\ Top.phase = "loop"
    /\ Top.i > Len(fs.files[Top.file].imports)
    /\ stack' = Pop
    /\ UNCHANGED <<caller_vars, fs, token_limit, visited_files, referenced_objects, pc, args,
                   main_object, project_root, result, sorted_refs, kept_refs,
                   current_tokens, ref_i, returned, prev, ncalls, entered, extracted>>

----------------------------------------------------------------------------
(* extract_code after _resolve_imports: the exit filter, the token count   *)
(* and the budget pass.                                                    *)

\* the exit filter's test on obj["file"]
KeepReference(file, root) ==
    ~_is_external_library(file) /\ StartsWith(abspath(file), root)

\* mutant: the sum counts one token too many
SumTokens_one_more(refs) ==
    Cardinality({k \in 1..Len(refs) : _count_tokens(refs[k].code) >= 0}) + 1

RECURSIVE SumTokens(_)
\* sum(self._count_tokens(obj["code"]) for obj in refs)
SumTokens(refs) ==
    IF refs = <<>> THEN 0 ELSE _count_tokens(refs[1].code) + SumTokens(Tail(refs))

\* "if result['token_count'] > self.token_limit"
OverLimit(count, limit) == count > limit

FilterAndCount ==
    /\ pc = "resolve"
    /\ stack = <<>>
    /\ LET refs == SelectSeq(referenced_objects,
                             LAMBDA obj : KeepReference(obj.file, project_root))
           main_token_count == _count_tokens(main_object.code)
           res == [main_object |-> main_object,
                   referenced_objects |-> refs,
                   token_count |-> main_token_count + SumTokens(refs),
                   token_limit |-> token_limit,
                   truncated |-> None]
       IN  /\ referenced_objects' = refs
           /\ result' = res
           /\ IF OverLimit(res.token_count, token_limit)
              THEN /\ pc' = "prioritize"
                   /\ sorted_refs' = sorted(refs)
                   /\ kept_refs' = <<>>
                   /\ current_tokens' = main_token_count
                   /\ ref_i' = 1
                   /\ UNCHANGED returned
              ELSE /\ pc' = "done"
                   /\ returned' = Returned("result", "", Some(res))
                   /\ UNCHANGED <<sorted_refs, kept_refs, current_tokens, ref_i>>
    /\ UNCHANGED <<caller_vars, fs, token_limit, visited_files, args, main_object, project_root,
                   stack, prev, ncalls, entered, extracted>>

\* a budget pass that gives up at the first reference it cannot place
_prioritize_code_ends_at_misfit ==
    /\ pc = "prioritize"
    /\ ref_i <= Len(sorted_refs)
    /\ LET ref == sorted_refs[ref_i]
           ref_tokens == _count_tokens(ref.code)
           truncated_ref == [ref EXCEPT !.code = truncated_code(ref),
                                        !.truncated = Some(TRUE)]
           truncated_tokens == _count_tokens(truncated_ref.code)
       IN  IF Fits(current_tokens, ref_tokens, token_limit)
           THEN /\ kept_refs' = Append(kept_refs, ref)
                /\ current_tokens' = current_tokens + ref_tokens
                /\ ref_i' = ref_i + 1
           ELSE IF Fits(current_tokens, truncated_tokens, token_limit)
           THEN /\ kept_refs' = Append(kept_refs, truncated_ref)
                /\ current_tokens' = current_tokens + truncated_tokens
                /\ ref_i' = ref_i + 1
           ELSE /\ UNCHANGED <<kept_refs, current_tokens>>
                /\ ref_i' = Len(sorted_refs) + 1
    /\ UNCHANGED <<caller_vars, fs, token_limit, visited_files, referenced_objects, pc, args,
                   main_object, project_root, stack, result, sorted_refs, returned,
                   prev, ncalls, entered, extracted>>

\* one turn of "for ref in sorted_refs"
_prioritize_code ==
    /\ pc = "prioritize"
    /\ ref_i <= Len(sorted_refs)
    /\ LET ref == sorted_refs[ref_i]
           ref_tokens == _count_tokens(ref.code)
           truncated_ref == [ref EXCEPT !.code = truncated_code(ref),
                                        !.truncated = Some(TRUE)]
           truncated_tokens == _count_tokens(truncated_ref.code)
       IN  IF Fits(current_tokens, ref_tokens, token_limit)
           THEN /\ kept_refs' = Append(kept_refs, ref)
                /\ current_tokens' = current_tokens + ref_tokens
           ELSE IF Fits(current_tokens, truncated_tokens, token_limit)
           THEN /\ kept_refs' = Append(kept_refs, truncated_ref)
                /\ current_tokens' = current_tokens + truncated_tokens
           ELSE UNCHANGED <<kept_refs, current_tokens>>
    /\ ref_i' = ref_i + 1
    /\ UNCHANGED <<caller_vars, fs, token_limit, visited_files, referenced_objects, pc, args,
                   main_object, project_root, stack, result, sorted_refs, returned,
                   prev, ncalls, entered, extracted>>

\* "result_dict['truncated'] = len(kept_refs) < len(sorted_refs)"
TruncatedFlag(kept, refs) == Len(kept) < Len(refs)

\* the loop is over: the result is updated and returned
PrioritizeReturn ==
    /\ pc = "prioritize"
    /\ ref_i > Len(sorted_refs)
    /\ LET res == [result EXCEPT !.referenced_objects = kept_refs,
                                 !.token_count = current_tokens,
                                 !.truncated = Some(TruncatedFlag(kept_refs, sorted_refs))]
       IN  /\ result' = res
           /\ returned' = Returned("result", "", Some(res))
    /\ pc' = "done"
    /\ UNCHANGED <<caller_vars, fs, token_limit, visited_files, referenced_objects, args,
                   main_object, project_root, stack, sorted_refs, kept_refs,
                   current_tokens, ref_i, prev, ncalls, entered, extracted>>

----------------------------------------------------------------------------

\* the steps of a running call
Step ==
    \/ _resolve_imports
    \/ _process_imported_module
    \/ _try_find_project_module
    \/ _process_imported_object
    \/ SkipRelativeImport
    \/ ResolveReturn
    \/ FilterAndCount
    \/ _prioritize_code
    \/ PrioritizeReturn

Next ==
    \/ \E a \in CallArgs(fs) : extract_code(a) /\ UNCHANGED caller_vars
    \/ Step

Spec == Init /\ [][Next]_vars

\* a call of extract_code is being executed
Running == pc \in {"resolve", "prioritize"}

\* A call that has started runs on: the program is sequential and no step of
\* it waits for anything.  This is weak fairness of Step, WF_vars(Step),
\* with ENABLED <<Step>>_vars written out: Step is enabled exactly in the
\* states where a call is running.
FairSpec == Spec /\ ([]<>~Running \/ []<><<Step>>_vars)

----------------------------------------------------------------------------
(* find_all_python_files applied to directory trees.                       *)

FilesInit ==
    /\ fs \in TreeProjects
    /\ Fresh

\* grapher.find_all_python_files(root_path)
ListPythonFiles(root_path) ==
    /\ walk_root' = Some(root_path)
    /\ python_files' = find_all_python_files(fs, root_path)
    /\ UNCHANGED <<fs, token_limit, visited_files, referenced_objects, pc, args,
                   main_object, project_root, stack, result, sorted_refs, kept_refs,
                   current_tokens, ref_i, returned, prev, ncalls, entered, extracted,
                   mcp_request, mcp_response, nrequests>>

FilesNext == \E root_path \in WalkRoots : ListPythonFiles(root_path)

FilesSpec == FilesInit /\ [][FilesNext]_vars

----------------------------------------------------------------------------
(* agent.py: get_python_code.                                              *)

\* os.path.relpath(path, start) for absolute paths
relpath(path, start) ==
    LET p == SelectSeq(Split(path, SLASH), LAMBDA seg : seg # <<>>)
        st == SelectSeq(Split(start, SLASH), LAMBDA seg : seg # <<>>)
        Same == {k \in 0..Len(p) : k <= Len(st) /\ \A i \in 1..k : p[i] = st[i]}
        common == CHOOSE k \in Same : \A m \in Same : m <= k
        all == [i \in 1..(Len(st) - common) |-> <<".",".">>] \o SubSeq(p, common + 1, Len(p))
    IN  IF all = <<>> THEN <<".">> ELSE JoinWith(all, <<SLASH>>)

\* "readme_patterns", in the order they are tried
readme_patterns ==
    << <<"R","E","A","D","M","E",".","m","d">>,
       <<"R","E","A","D","M","E",".","t","x","t">>,
       <<"R","E","A","D","M","E">>,
       <<"r","e","a","d","m","e",".","m","d">>,
       <<"R","e","a","d","m","e",".","m","d">> >>

\* os.path.isfile(readme_path)
isfile(f, path) == path \in DOMAIN f.readme

\* find_readme_files(root_path): the first pattern that names a file in
\* root_path, and nothing more
find_readme_files(f, root_path) ==
    LET hits == SelectSeq(readme_patterns, LAMBDA pattern : isfile(f, join(root_path, pattern)))
    IN  IF hits = <<>> THEN <<>> ELSE <<join(root_path, hits[1])>>

\* "readme_files_data": an entry for each README found that can be read
readme_files_data(f, readme_files, root_repo_path) ==
    LET readable == SelectSeq(readme_files, LAMBDA readme_path : f.readme[readme_path].readable)
    IN  [k \in 1..Len(readable) |->
            [file_path |-> relpath(readable[k], root_repo_path),
             code |-> f.readme[readable[k]].content,
             type |-> "readme",
             docstring |-> "Project documentation",
             token_count |-> _count_tokens(f.readme[readable[k]].content)]]

\* "potential_imports": the first components of the modules the target names
\* in its import statements
potential_imports(f, target_file) ==
    IF ~f.files[target_file].parses THEN {}
    ELSE LET imports == f.files[target_file].imports
         IN  UNION {IF imports[k].kind = "import"
                    THEN {FirstComponent(imports[k].names[j]) : j \in 1..Len(imports[k].names)}
                    ELSE IF imports[k].module # None
                    THEN {FirstComponent(imports[k].module[1])} ELSE {} :
                    k \in 1..Len(imports)}

\* the relevance score of py_file: 3 for the target's directory, 4 for the
\* name of a module the target imports
Relevance(f, py_file, target_file) ==
    (IF dirname(py_file) = dirname(target_file) THEN 3 ELSE 0)
    + (IF RemoveAll(basename(py_file), ext_py) \in potential_imports(f, target_file)
       THEN 4 ELSE 0)

\* "if len(additional_files) >= 5: break"
MaxAdditionalFiles == 5

\* "additional_files": of the listed files that are not included yet, the
\* first five with a relevance above 0, sorted by relevance, highest first
additional_files(f, all_python_files, included_paths, target_file, root_repo_path) ==
    LET relevant == SelectSeq(all_python_files,
                              LAMBDA py_file : /\ py_file \notin included_paths
                                               /\ Relevance(f, py_file, target_file) > 0)
        taken == SubSeq(relevant, 1, IF Len(relevant) < MaxAdditionalFiles
                                     THEN Len(relevant) ELSE MaxAdditionalFiles)
        entry(py_file) ==
            [file_path |-> relpath(py_file, root_repo_path),
             code |-> f.files[py_file].source,
             type |-> IF dirname(py_file) = dirname(target_file)
                      THEN "related_by_directory" ELSE "related_by_import",
             docstring |-> f.files[py_file].docstring,
             token_count |-> _count_tokens(f.files[py_file].source)]
        with(r) == SelectSeq(taken, LAMBDA py_file : Relevance(f, py_file, target_file) = r)
        ordered == with(7) \o with(4) \o with(3)
    IN  [k \in 1..Len(ordered) |-> entry(ordered[k])]

\* "file_data" of a referenced object
file_data(obj, root_repo_path) ==
    [file_path |-> relpath(obj.file, root_repo_path),
     object_name |-> obj.name,
     object_type |-> obj.type,
     code |-> obj.code,
     docstring |-> obj.docstring,
     truncated |-> (obj.truncated = Some(TRUE)),
     token_count |-> _count_tokens(obj.code)]

\* list.sort(key=lambda x: x["token_count"]): stable, smallest first
SortByTokenCount(entries) ==
    LET Before(i, j) ==
            \/ entries[i].token_count < entries[j].token_count
            \/ entries[i].token_count = entries[j].token_count /\ i < j
        rank(i) == Cardinality({j \in 1..Len(entries) : Before(j, i)}) + 1
    IN  [k \in 1..Len(entries) |->
            entries[CHOOSE i \in 1..Len(entries) : rank(i) = k]]

RECURSIVE SumCounts(_)
\* the token counts of entries added up
SumCounts(entries) ==
    IF entries = <<>> THEN 0 ELSE Head(entries).token_count + SumCounts(Tail(entries))

\* mutant: every entry is taken, whatever the budget left
Admit_all(entries, current, limit) ==
    [taken |-> entries, count |-> current + SumCounts(entries)]

RECURSIVE Admit(_, _, _)
\* one pass over entries with the running count current: an entry is taken
\* when "current_token_count + file_data['token_count'] <= token_limit" and
\* then counted; gives the indices taken and the count reached
Admit(entries, current, limit) ==
    IF entries = <<>> THEN [taken |-> <<>>, count |-> current]
    ELSE IF current + Head(entries).token_count <= limit
    THEN LET rest == Admit(Tail(entries), current + Head(entries).token_count, limit)
         IN  [taken |-> <<Head(entries)>> \o rest.taken, count |-> rest.count]
    ELSE Admit(Tail(entries), current, limit)

\* an entry without its token_count
Listed_entry(e) == [k \in DOMAIN e \ {"token_count"} |-> e[k]]

\* the dictionary get_python_code returns for the result of extract_code
llm_friendly_format(f, res, target_file, root_repo_path, limit) ==
    LET target_code == [file_path |-> relpath(target_file, root_repo_path),
                        code |-> res.main_object.code,
                        type |-> "target",
                        docstring |-> res.main_object.docstring]
        target_token_count == _count_tokens(res.main_object.code)
        refs == res.referenced_objects
        files_importing_target == [k \in 1..Len(refs) |-> file_data(refs[k], root_repo_path)]
        all_python_files == find_all_python_files(f, root_repo_path)
        included_paths == {target_file} \cup {refs[k].file : k \in 1..Len(refs)}
        additional == additional_files(f, all_python_files, included_paths,
                                       target_file, root_repo_path)
        readmes == readme_files_data(f, find_readme_files(f, root_repo_path), root_repo_path)
        \* "current_token_count += readme_token_count", whatever the limit
        with_readme == target_token_count + SumCounts(readmes)
        referenced == Admit(SortByTokenCount(files_importing_target), with_readme, limit)
        others == Admit(additional, referenced.count, limit)
        final_referenced_files == [k \in 1..Len(referenced.taken) |-> Listed_entry(referenced.taken[k])]
        final_additional_files ==
            [k \in 1..Len(readmes) |-> Listed_entry(readmes[k])]
            \o [k \in 1..Len(others.taken) |-> Listed_entry(others.taken[k])]
    IN  [target_file |-> target_code,
         referenced_files |-> final_referenced_files,
         additional_files |-> final_additional_files,
         total_files |-> 1 + Len(final_referenced_files) + Len(final_additional_files),
         token_count |-> others.count,
         token_limit |-> limit]

----------------------------------------------------------------------------
(* agent.py: the projects and requests handle_mcp_request is given.        *)

\* requests handed to handle_mcp_request in one run
MaxRequests == 2

\* n words separated by blanks: a text of n tokens
BigText(n) == [i \in 1..(2 * n - 1) |-> IF i % 2 = 1 THEN "w" ELSE " "]

\* a README file: whether open(..., encoding='utf-8').read() succeeds, and
\* what it gives
Readme(readable, content) == [readable |-> readable, content |-> content]

d_a == <<"/","a">>
d_as == <<"/","a","/","s">>
n_f == <<"f">>
n_r == <<"r">>
n_u == <<"u">>
n_x == <<"x">>
README_md == <<"R","E","A","D","M","E",".","m","d">>
README_txt == <<"R","E","A","D","M","E",".","t","x","t">>
readme_md == <<"r","e","a","d","m","e",".","m","d">>

\* the README files of a project, by name
ReadmeConfigs ==
    [none |-> <<>>,
     one |-> (README_md :> Readme(TRUE, BigText(3))),
     two |-> (README_txt :> Readme(TRUE, BigText(2))) @@ (readme_md :> Readme(TRUE, BigText(4))),
     undecodable_first |-> (README_md :> Readme(FALSE, <<>>)) @@ (README_txt :> Readme(TRUE, BigText(2))),
     undecodable_only |-> (README_md :> Readme(FALSE, <<>>)),
     near_limit |-> (README_md :> Readme(TRUE, BigText(DefaultTokenLimit - 7))),
     room_for_one |-> (README_md :> Readme(TRUE, BigText(DefaultTokenLimit - 9))),
     over_limit |-> (README_md :> Readme(TRUE, BigText(DefaultTokenLimit + 1)))]

\* "agent": /a holds t.py (imports m), f.py (from m import K), r.py (a
\* relative import, then imports m), m.py (class K, function h) and u.py;
\* /a/s holds x.py; the README files are those of the configuration.  With
\* big, class K has a docstring of more tokens than the limit.
AgentFS(config, big) ==
    LET names == ReadmeConfigs[config]
    IN  [readme |-> [q \in {join(d_a, name) : name \in DOMAIN names} |->
                        names[CHOOSE name \in DOMAIN names : join(d_a, name) = q]]]
        @@ MkFS(IF big \/ config \in {"near_limit", "room_for_one", "over_limit"} THEN "agent_big" ELSE "agent",
             (PyFile(d_a, n_t) :>
                  MkFile(<<ImportStmt(<<n_m>>)>>, <<DeclSpec(<<"t","t">>, "function", 1, <<>>, 1)>>))
             @@ (PyFile(d_a, n_f) :>
                  MkFile(<<ImportFromStmt(Some(n_m), <<<<"K">>>>)>>, <<>>))
             @@ (PyFile(d_a, n_r) :>
                  MkFile(<<ImportFromStmt(None, <<n_x>>), ImportStmt(<<n_m>>)>>, <<>>))
             @@ (PyFile(d_a, n_m) :>
                  MkFile(<<>>, <<DeclSpec(<<"K">>, "class", 1,
                                          IF big THEN BigText(DefaultTokenLimit) ELSE <<>>, 1),
                                 DeclSpec(<<"h">>, "function", 1, <<>>, 2)>>))
             @@ (PyFile(d_a, n_u) :>
                  MkFile(<<>>, <<DeclSpec(<<"u","u">>, "function", 1, <<>>, 1)>>))
             @@ (PyFile(d_as, n_x) :>
                  MkFile(<<>>, <<DeclSpec(<<"x","x">>, "function", 1, <<>>, 1)>>)),
             <<[path |-> d_a, files |-> <<n_t \o ext_py, n_f \o ext_py, n_r \o ext_py,
                                         n_m \o ext_py, n_u \o ext_py>>
                                        \o SelectSeq(readme_patterns,
                                                     LAMBDA pattern : pattern \in DOMAIN names)],
               [path |-> d_as, files |-> <<n_x \o ext_py>>]>>,
             {}, {})

AgentProjects ==
    {AgentFS(config, FALSE) : config \in DOMAIN ReadmeConfigs}
    \cup {AgentFS("one", TRUE)}

\* a JSON-RPC request: the method and id are absent or given; params is
\* absent, null or an object with name and arguments
Request(method, params, id) == [method |-> method, params |-> params, id |-> id]
Params(kind, name, arguments) == [kind |-> kind, name |-> name, arguments |-> arguments]
NoParams == Params("absent", None, None)
ToolArgs(target_file, root_repo_path) ==
    [target_file |-> target_file, root_repo_path |-> root_repo_path]
Call(name, arguments, id) == Request(Some("tools/call"), Params("object", name, arguments), id)

\* the ids requests carry
RequestIds == {None, Some(1), Some(2)}

AgentRequests(f) ==
    IF f.kind = "agent_big"
    THEN {Request(Some("tools/list"), NoParams, Some(1)),
          Call(Some("get_python_code"), Some(ToolArgs(Some(PyFile(d_a, n_t)), None)), Some(2))}
    ELSE {Request(Some("tools/list"), NoParams, id) : id \in RequestIds}
         \cup {Request(Some("initialize"), NoParams, Some(1)),
               Request(Some("resources/list"), NoParams, Some(2)),
               Request(None, NoParams, None),
               Request(Some("tools/call"), Params("null", None, None), Some(1)),
               Request(Some("tools/call"), NoParams, Some(1)),
               Call(Some("other_tool"), None, Some(1)),
               Call(Some("get_python_code"), None, Some(2)),
               Call(Some("get_python_code"), Some(ToolArgs(Some(<<>>), None)), Some(2)),
               Call(Some("get_python_code"), Some(ToolArgs(Some(join(d_a, README_md)), None)), Some(2)),
               Call(Some("get_python_code"), Some(ToolArgs(Some(PyFile(d_a, n_t)), Some(d_a))), Some(1))}
         \cup {Call(Some("get_python_code"), Some(ToolArgs(Some(PyFile(d_a, n)), None)), Some(2)) :
                  n \in {n_t, n_f, n_r}}

----------------------------------------------------------------------------
(* agent.py: handle_mcp_request.                                           *)

\* {"jsonrpc": "2.0", "id": req_id, "result": ...}
ResultResponse(req_id, res) == [jsonrpc |-> "2.0", id |-> req_id, result |-> res]

\* {"jsonrpc": "2.0", "id": req_id, "error": {"code": ..., "message": ...}}
ErrorResponse(req_id, code, message, about) ==
    [jsonrpc |-> "2.0", id |-> req_id,
     error |-> [code |-> code, message |-> message, about |-> about]]

\* an exception that leaves handle_mcp_request
Escaped(exception) == [raised |-> exception]

\* the tools of the "tools/list" answer, by name and required arguments
Tools == <<[name |-> "get_python_code", required |-> <<"target_file">>]>>

\* a tool list that is handed out once only
ListTools_once(req_id) ==
    ResultResponse(req_id, [tools |-> IF nrequests = 0 THEN Tools ELSE <<>>])

\* the answer to "tools/list"
ListTools(req_id) == ResultResponse(req_id, [tools |-> Tools])

\* the answer to "initialize"
Capabilities(req_id) ==
    ResultResponse(req_id, [capabilities |-> [tools |-> [listChanged |-> FALSE]]])

\* the result of a tool call that failed with an exception
ToolFailure(req_id, message) ==
    ResultResponse(req_id, [content |-> <<[type |-> "text", text |-> message]>>,
                            isError |-> TRUE])

\* the result of a tool call that gave data
ToolSuccess(req_id, target_file, data) ==
    ResultResponse(req_id,
        [content |-> <<[type |-> "text", text |-> target_file],
                       [type |-> "resource",
                        resource |-> [uri |-> basename(target_file),
                                      mimeType |-> "application/json",
                                      data |-> data]]>>,
         isError |-> FALSE])

\* request_data.get("method", "")
MethodOf(req) == IF req.method = None THEN "" ELSE req.method[1]

\* params.get("arguments", {}).get(key)
Argument(req, key) ==
    IF req.params.arguments = None THEN None ELSE req.params.arguments[1][key]

\* "if not target_file": absent or the empty string
Missing(target_file) == target_file = None \/ target_file[1] = <<>>

\* the request reaches "result = get_python_code(target_file, root_repo_path)"
CallsTool(req) ==
    /\ MethodOf(req) = "tools/call"
    /\ req.params.kind # "null"
    /\ req.params.name = Some("get_python_code")
    /\ ~Missing(Argument(req, "target_file"))

\* root_repo_path as get_python_code settles it
RepoRoot(req) ==
    IF Argument(req, "root_repo_path") = None
    THEN dirname(Argument(req, "target_file")[1])
    ELSE Argument(req, "root_repo_path")[1]

\* the request reaches "code_grapher.extract_code(...)": the target's name
\* ends in '.py'
CallsExtract(req) ==
    CallsTool(req) /\ EndsWith(abspath(Argument(req, "target_file")[1]), ext_py)

\* what handle_mcp_request gives for a request that does not reach
\* extract_code
Immediate(req) ==
    LET method == MethodOf(req)
        req_id == req.id
    IN  IF method = "tools/list" THEN ListTools(req_id)
        ELSE IF method = "tools/call"
        THEN IF req.params.kind = "null" THEN Escaped("AttributeError")
             ELSE IF req.params.name # Some("get_python_code")
             THEN ErrorResponse(req_id, -32601, "Unknown tool", req.params.name)
             ELSE IF Missing(Argument(req, "target_file"))
             THEN ErrorResponse(req_id, -32602, "Missing required argument: target_file", None)
             ELSE ToolFailure(req_id, "The target file must be a Python file (.py)")
        ELSE IF method = "initialize" THEN Capabilities(req_id)
        ELSE ErrorResponse(req_id, -32601, "Method not found", Some(method))

\* handle_mcp_request is at work on mcp_request
Handling == mcp_request # None /\ mcp_response = None

\* handle_mcp_request(request_data), up to its answer or, for a tool call,
\* up to the call of _resolve_imports in extract_code.  get_python_code makes
\* a CodeGrapher of its own for every call; extract_code resets
\* visited_files and referenced_objects itself and no call here overrides the
\* limit, so the instance it finds is as a new one
handle_mcp_request(req) ==
    /\ ~Handling
    /\ nrequests < MaxRequests
    /\ mcp_request' = Some(req)
    /\ nrequests' = nrequests + 1
    /\ UNCHANGED <<walk_root, python_files>>
    /\ IF CallsExtract(req)
       THEN /\ extract_code(Args(Argument(req, "target_file")[1], None, None,
                                 Some(RepoRoot(req))))
            /\ mcp_response' = None
       ELSE /\ mcp_response' = Some(Immediate(req))
            /\ UNCHANGED <<fs, token_limit, visited_files, referenced_objects, pc, args,
                           main_object, project_root, stack, result, sorted_refs,
                           kept_refs, current_tokens, ref_i, returned, prev, ncalls,
                           entered, extracted>>

\* extract_code is back: get_python_code builds its dictionary, or raises,
\* and handle_mcp_request answers
get_python_code ==
    /\ Handling
    /\ pc = "done"
    /\ LET req == mcp_request[1]
           target_file == abspath(Argument(req, "target_file")[1])
           root_repo_path == RepoRoot(req)
       IN  IF returned.kind = "result"
           THEN /\ mcp_response' = Some(ToolSuccess(req.id, Argument(req, "target_file")[1],
                                          llm_friendly_format(fs, returned.result[1], target_file,
                                                              root_repo_path, token_limit)))
                /\ walk_root' = Some(root_repo_path)
                /\ python_files' = find_all_python_files(fs, root_repo_path)
           ELSE /\ mcp_response' = Some(ToolFailure(req.id, returned.error))
                /\ UNCHANGED <<walk_root, python_files>>
    /\ UNCHANGED <<fs, token_limit, visited_files, referenced_objects, pc, args,
                   main_object, project_root, stack, result, sorted_refs, kept_refs,
                   current_tokens, ref_i, returned, prev, ncalls, entered, extracted,
                   mcp_request, nrequests>>

AgentInit ==
    /\ fs \in AgentProjects
    /\ Fresh

AgentNext ==
    \/ \E req \in AgentRequests(fs) : handle_mcp_request(req)
    \/ Step
    \/ get_python_code

AgentSpec == AgentInit /\ [][AgentNext]_vars

----------------------------------------------------------------------------
(* Properties.                                                             *)

Done == pc = "done"
GaveResult == Done /\ returned.kind = "result"
TheResult == returned.result[1]
TheArgs == args[1]
TargetFile == abspath(TheArgs.target_file)

\* the token cost of the main object alone
MainTokens(r) == _count_tokens(r.main_object.code)

\* C1: a returned result has token_count <= token_limit, unless the main
\* object's code alone costs more than token_limit; then referenced_objects
\* is empty and token_count is the main object's cost.
C1_BudgetInvariant ==
    GaveResult =>
        \/ TheResult.token_count <= TheResult.token_limit
        \/ /\ MainTokens(TheResult) > TheResult.token_limit
           /\ TheResult.referenced_objects = <<>>
           /\ TheResult.token_count = MainTokens(TheResult)

\* the budget pass ran, kept some references and dropped others, and the
\* main object fits
C1_Witness ==
    /\ GaveResult
    /\ TheResult.truncated = Some(TRUE)
    /\ TheResult.referenced_objects # <<>>
    /\ MainTokens(TheResult) <= TheResult.token_limit
    /\ TheResult.token_count <= TheResult.token_limit

\* C2: every referenced object of a returned result has a file that is not
\* classified external and that lies in the directory tree below the
\* configured project_root.
C2_NoExternalLeakage ==
    GaveResult =>
        \A k \in 1..Len(TheResult.referenced_objects) :
            LET file == TheResult.referenced_objects[k].file
            IN  /\ ~_is_external_library(file)
                /\ IsDescendant(abspath(file), project_root)

\* C3: once the target file has been parsed (the call did not end with an
\* error dictionary), extract_code returns a result: no exception raised
\* while resolving imports reaches its caller.
C3_ResolverCannotFail ==
    Done => returned.kind \in {"result", "error"}

\* file p holds an "import" statement naming module name
ImportsModule(f, p, name) ==
    \E k \in 1..Len(f.files[p].imports) :
        /\ f.files[p].imports[k].kind = "import"
        /\ \E n \in 1..Len(f.files[p].imports[k].names) :
               f.files[p].imports[k].names[n] = name

ModuleOf(p) == RemoveAll(basename(p), ext_py)

\* C4: extract_code terminates, also on import cycles, and for no file is
\* the import resolver entered, or the file's declarations extracted, more
\* than once in a call.
C4_CycleTermination ==
    /\ [](\A p \in DOMAIN fs.files : entered[p] <= 1 /\ extracted[p] <= 1)
    /\ Running ~> Done

\* a call on a target that imports a file importing the target back has
\* ended, the other file extracted and resolved once
C4_Witness ==
    /\ GaveResult
    /\ \E p \in DOMAIN fs.files \ {TargetFile} :
           /\ ImportsModule(fs, TargetFile, ModuleOf(p))
           /\ ImportsModule(fs, p, ModuleOf(TargetFile))
           /\ entered[p] = 1
           /\ extracted[p] = 1
           /\ entered[TargetFile] = 1

\* the index i of chain file fi
ChainIndex(p) == CHOOSE i \in 0..9 : ChainPath(i) = p

\* import hops from chain file ft to chain file fi; more than any bound when
\* fi cannot be reached from ft
ChainHops(f, t, i) ==
    LET n == Cardinality(DOMAIN f.files) - 1
        closed == f.files[ChainPath(n)].imports # <<>>
    IN  IF i >= t THEN i - t
        ELSE IF closed THEN i - t + n + 1
        ELSE 2 * (n + 1)

\* C5: in a chain f0 -> f1 -> ... -> fN (N > 5) no referenced object, during
\* the traversal or in the result, comes from a file more than
\* max_import_depth import hops away from the target.
C5_DepthBound ==
    (fs.kind = "chain" /\ args # None) =>
        /\ \A k \in 1..Len(referenced_objects) :
               ChainHops(fs, ChainIndex(TargetFile),
                         ChainIndex(referenced_objects[k].file)) <= max_import_depth
        /\ GaveResult =>
               \A k \in 1..Len(TheResult.referenced_objects) :
                   ChainHops(fs, ChainIndex(TargetFile),
                             ChainIndex(TheResult.referenced_objects[k].file))
                       <= max_import_depth

\* a chain call has ended with a reference from the file 5 hops away, while
\* the chain goes on to a file 6 hops away
C5_Witness ==
    /\ fs.kind = "chain"
    /\ GaveResult
    /\ \E k \in 1..Len(TheResult.referenced_objects) :
           ChainHops(fs, ChainIndex(TargetFile),
                     ChainIndex(TheResult.referenced_objects[k].file)) = max_import_depth
    /\ \E p \in DOMAIN fs.files :
           ChainHops(fs, ChainIndex(TargetFile), ChainIndex(p)) = max_import_depth + 1

\* C6: a call made without a token_limit override uses the limit given to
\* the constructor, whatever earlier calls passed.
C6_NoCrossCallState ==
    (GaveResult /\ TheArgs.token_limit = None) =>
        TheResult.token_limit = DefaultTokenLimit

\* C7: two consecutive calls with identical arguments return identical
\* outcomes.
C7_Idempotence ==
    (Done /\ prev # None /\ prev[1].args = TheArgs) => returned = prev[1].returned

\* a call has been repeated with the same arguments and gave a result with
\* referenced objects
C7_Witness ==
    /\ GaveResult
    /\ prev # None
    /\ prev[1].args = TheArgs
    /\ TheResult.referenced_objects # <<>>

\* the target cannot be read or parsed
TargetUnparseable == ~_parse_file(fs, TargetFile).ok

\* a non-empty target_object was requested and the target file has no class
\* or function of that name
TargetObjectMissing ==
    /\ Wanted(TheArgs.target_object)
    /\ ~TargetUnparseable
    /\ \A k \in 1..Len(fs.files[TargetFile].decls) :
           fs.files[TargetFile].decls[k].name # TheArgs.target_object[1]

\* C8: every call ends with a result dictionary or with an error
\* dictionary, and with the error dictionary exactly when the target cannot
\* be read or parsed or the requested target_object does not exist.
C8_OutcomeDichotomy ==
    Done =>
        /\ returned.kind \in {"result", "error"}
        /\ returned.kind = "error" <=> (TargetUnparseable \/ TargetObjectMissing)
        /\ returned.kind = "error" <=> returned.result = None

\* some candidate reference is missing from the result
SomeDropped(r) == Len(r.referenced_objects) < Len(referenced_objects)

\* some reference of the result is a truncated stand-in
SomeDegraded(r) ==
    \E k \in 1..Len(r.referenced_objects) : r.referenced_objects[k].truncated = Some(TRUE)

\* C9: the result's truncated flag is true exactly when a candidate
\* reference was dropped or degraded to a stand-in.
C9_TruncatedFlag ==
    GaveResult =>
        (TheResult.truncated = Some(TRUE)) <=> (SomeDropped(TheResult) \/ SomeDegraded(TheResult))

\* a before b in the budget pass: a class before a function, and within a
\* kind the cheaper one first
MayPrecede(a, b) ==
    \/ a.type = "class" /\ b.type # "class"
    \/ /\ (a.type = "class") = (b.type = "class")
       /\ _count_tokens(a.code) <= _count_tokens(b.code)

\* how often x occurs in seq
Occurrences(seq, x) == Cardinality({k \in 1..Len(seq) : seq[k] = x})

\* C10: when the total exceeds the limit the references are considered
\* classes first, cheaper first within a kind; each is attempted into the
\* budget left by the outcomes before it; in the scenario (class C of 200
\* tokens, function f of 50, limit = target + 100) C is kept as its
\* stand-in and f whole after it.
C10_PriorityOrder ==
    /\ pc = "prioritize" \/ (GaveResult /\ TheResult.truncated # None) =>
           /\ Len(sorted_refs) = Len(referenced_objects)
           /\ \A k \in 1..Len(sorted_refs) :
                  Occurrences(sorted_refs, sorted_refs[k])
                      = Occurrences(referenced_objects, sorted_refs[k])
           /\ \A i \in 1..Len(sorted_refs) : \A j \in (i + 1)..Len(sorted_refs) :
                  MayPrecede(sorted_refs[i], sorted_refs[j])
           /\ current_tokens = _count_tokens(main_object.code) + SumTokens(kept_refs)
           /\ Len(kept_refs) <= ref_i - 1
    /\ (fs.kind = "scenario" /\ GaveResult /\ TheArgs.token_limit # None) =>
           LET refs == TheResult.referenced_objects
           IN  /\ Len(refs) = 2
               /\ refs[1].name = <<"C">> /\ refs[1].truncated = Some(TRUE)
               /\ refs[2].name = <<"f">> /\ refs[2].truncated = None
               /\ TheResult.token_count
                      = MainTokens(TheResult) + _count_tokens(refs[1].code) + 50

\* the scenario has run with limit = target + 100: C (200 tokens) did not
\* fit and was kept as its stand-in, f (50 tokens) went into the rest
C10_Witness ==
    /\ fs.kind = "scenario"
    /\ GaveResult
    /\ TheResult.token_limit = MainTokens(TheResult) + 100
    /\ Len(sorted_refs) = 2
    /\ _count_tokens(sorted_refs[1].code) = 200
    /\ _count_tokens(sorted_refs[2].code) = 50
    /\ Len(TheResult.referenced_objects) = 2
    /\ TheResult.referenced_objects[1].truncated = Some(TRUE)

\* the text of lines first..last of the file at path p
FileLines(p, first, last) ==
    JoinWith(SubSeq(splitlines(fs.files[p].source), first, last), <<NL>>)

\* C11: the main object of a returned result is the complete text of the
\* target - the whole file, or every line of the requested declaration - and
\* the budget pass neither shortens it nor flags it truncated, whatever the
\* token limit.
C11_MainObjectKeptWhole ==
    GaveResult =>
        /\ TheResult.main_object = main_object
        /\ "truncated" \notin DOMAIN TheResult.main_object
        /\ IF Wanted(TheArgs.target_object)
           THEN \E k \in 1..Len(fs.files[TargetFile].decls) :
                    LET d == fs.files[TargetFile].decls[k]
                    IN  /\ d.name = TheArgs.target_object[1]
                        /\ TheResult.main_object.code
                               = FileLines(TargetFile, d.lineno, d.end_lineno)
           ELSE TheResult.main_object.code = fs.files[TargetFile].source

\* the budget pass has run on a target that alone costs more than the
\* limit, and the result holds the target's whole source
C11_Witness ==
    /\ GaveResult
    /\ TheResult.truncated # None
    /\ MainTokens(TheResult) > TheResult.token_limit
    /\ TheResult.main_object.code = fs.files[TargetFile].source

\* the target file holds no import statement
NoImports == fs.files[TargetFile].imports = <<>>

ImportsBeingResolved(p) ==
    \E k \in 1..Len(stack) : stack[k].file = p /\ stack[k].phase # "enter"

\* C13: a file whose path holds a virtual-environment marker is never
\* marked visited, never parsed for extraction and never has its imports
\* resolved, on the import route and on the tree-search route alike, and the
\* result holds no reference from it.
C13_VirtualEnvSkipped ==
    \A p \in DOMAIN fs.files :
        _is_external_library(p) =>
            /\ p \notin visited_files
            /\ extracted[p] = 0
            /\ ~ImportsBeingResolved(p)
            /\ GaveResult =>
                   \A k \in 1..Len(TheResult.referenced_objects) :
                       TheResult.referenced_objects[k].file # p

\* C14: during a call no file outside the configured project_root is
\* marked visited, parsed for extraction or has its imports resolved, and
\* none is in the result, whichever way the file was found.
C14_ProjectRootBoundary ==
    args # None =>
        \A p \in DOMAIN fs.files :
            ~IsDescendant(p, project_root) =>
                /\ p \notin visited_files
                /\ extracted[p] = 0
                /\ ~ImportsBeingResolved(p)
                /\ GaveResult =>
                       \A k \in 1..Len(TheResult.referenced_objects) :
                           TheResult.referenced_objects[k].file # p

\* C15: a call without target_object on a parseable file returns a result
\* (main_object, referenced_objects, token_count, token_limit) whose
\* main_object has type "module", the file's base name without ".py" as its
\* name, the absolute target path as its file and the file's whole source
\* as its code.
C15_WholeFileExtraction ==
    (Done /\ TheArgs.target_object = None /\ ~TargetUnparseable) =>
        /\ returned.kind = "result"
        /\ {"main_object", "referenced_objects", "token_count", "token_limit"}
               \subseteq DOMAIN TheResult
        /\ TheResult.main_object.type = "module"
        /\ TheResult.main_object.name \o ext_py = basename(TargetFile)
        /\ TheResult.main_object.file = TargetFile
        /\ TheResult.main_object.code = fs.files[TargetFile].source

\* the same for the calls that return
WholeFileShapeWhenReturned ==
    (Done /\ returned.kind # "raised") => C15_WholeFileExtraction

\* the references of the result that were considered before position k of the
\* sorted list, as the pass left them
Considered == ref_i - 1

\* C19: the budget pass is greedy and runs once over the sorted references.
\* Each turn takes the next reference and gives it exactly one outcome: kept
\* whole when the running total plus its cost is within the limit, otherwise
\* kept as a stand-in flagged truncated when the running total plus the
\* stand-in's cost is within the limit, otherwise dropped with the running
\* total unchanged; in every case the pass goes on to the next reference, and
\* no reference is looked at again.  The token_count reported at the end is
\* the main object's cost plus the costs of the kept references as kept.
C19_GreedySinglePass ==
    /\ [][(pc = "prioritize" /\ ref_i <= Len(sorted_refs)) =>
            LET ref == sorted_refs[ref_i]
                whole == _count_tokens(ref.code)
                standin == _count_tokens(truncated_code(ref))
            IN  /\ pc' = "prioritize"
                /\ ref_i' = ref_i + 1
                /\ sorted_refs' = sorted_refs
                /\ token_limit' = token_limit
                /\ IF current_tokens + whole <= token_limit
                   THEN /\ kept_refs' = Append(kept_refs, ref)
                        /\ current_tokens' = current_tokens + whole
                   ELSE IF current_tokens + standin <= token_limit
                   THEN /\ Len(kept_refs') = Len(kept_refs) + 1
                        /\ SubSeq(kept_refs', 1, Len(kept_refs)) = kept_refs
                        /\ kept_refs'[Len(kept_refs')].name = ref.name
                        /\ kept_refs'[Len(kept_refs')].file = ref.file
                        /\ kept_refs'[Len(kept_refs')].truncated = Some(TRUE)
                        /\ current_tokens' = current_tokens + standin
                   ELSE /\ kept_refs' = kept_refs
                        /\ current_tokens' = current_tokens]_vars
    /\ [](pc = "prioritize" =>
            /\ ref_i \in 1..(Len(sorted_refs) + 1)
            /\ current_tokens = _count_tokens(main_object.code) + SumTokens(kept_refs)
            /\ Len(kept_refs) <= Considered)
    /\ []((GaveResult /\ TheResult.truncated # None) =>
            /\ TheResult.referenced_objects = kept_refs
            /\ TheResult.token_count = MainTokens(TheResult) + SumTokens(kept_refs))

\* a budget pass is over in which a reference was dropped and a reference
\* after it in the sorted list was kept
C19_Witness ==
    /\ GaveResult
    /\ TheResult.truncated # None
    /\ \E i, j \in 1..Len(sorted_refs) :
          /\ i < j
          /\ \A k \in 1..Len(kept_refs) : kept_refs[k].name # sorted_refs[i].name
          /\ \E k \in 1..Len(kept_refs) : kept_refs[k].name = sorted_refs[j].name

\* the declarations of a file that are nested in no other declaration
TopLevelDecls(p) == SelectSeq(fs.files[p].decls, LAMBDA d : d.depth = 1)

\* the objects the import of file p as a whole module has appended, found
\* beside the importing file or by the search of the project tree
ImportedFrom(p) ==
    SelectSeq(referenced_objects,
              LAMBDA obj : obj.file = p /\ obj.reference_type \in {"import", "project_import"})

\* C20: a whole-module import of an in-project file F adds exactly one object
\* per top-level class or function of F, in source order: a nested
\* declaration adds none and no declaration appears twice, also when F has
\* declarations of the same name at different depths.
C20_OneObjectPerTopLevelDecl ==
    \A p \in DOMAIN fs.files :
        (pc = "resolve" /\ extracted[p] = 1) =>
            LET objs == ImportedFrom(p)
                top == TopLevelDecls(p)
            IN  /\ Len(objs) = Len(top)
                /\ \A k \in 1..Len(objs) :
                      /\ objs[k].name = top[k].name
                      /\ objs[k].type = top[k].type
                      /\ objs[k].code = FileLines(p, top[k].lineno, top[k].end_lineno)
                /\ \A i, j \in 1..Len(objs) : i # j => objs[i] # objs[j]

\* the claim holds of every imported file all of whose declarations are at
\* the top level
FlatModulesOnePerDecl ==
    \A p \in DOMAIN fs.files :
        (pc = "resolve" /\ extracted[p] = 1
            /\ \A k \in 1..Len(fs.files[p].decls) : fs.files[p].decls[k].depth = 1) =>
            /\ Len(ImportedFrom(p)) = Len(TopLevelDecls(p))
            /\ \A k \in 1..Len(ImportedFrom(p)) :
                  ImportedFrom(p)[k].name = TopLevelDecls(p)[k].name

\* find_all_python_files has been called
Listed == walk_root # None
ListedRoot == abspath(normpath(walk_root[1]))
Returned_files == {python_files[k] : k \in 1..Len(python_files)}

\* a directory named in the excluded set, or with a name that starts with '.',
\* lies on the way from the listed root down to the file or directory at path p
InExcludedDir(p, names) ==
    \E k \in 1..Len(names) : names[k] \in excluded_dirs \/ StartsWith(names[k], <<".">>)

\* the '.py' files of the tree that lie under the listed root
PyFilesUnderRoot ==
    {join(fs.dirs[k].path, fs.dirs[k].files[m]) :
        k \in {i \in 1..Len(fs.dirs) : fs.dirs[i].path = ListedRoot
                                         \/ IsDescendant(fs.dirs[i].path, ListedRoot)},
        m \in {1, 2}} \cap {q \in DOMAIN fs.files : EndsWith(q, ext_py)}

\* the names of the directories between the listed root and file q
DirsOf(q) ==
    IF dirname(q) = ListedRoot THEN <<>> ELSE NamesBelow(dirname(q), ListedRoot)

\* what is returned is a '.py' file under the root, in no excluded or dotted
\* directory below the root, and not classified external
C16_OnlyProjectFiles ==
    Listed =>
        \A q \in Returned_files :
            /\ EndsWith(q, ext_py)
            /\ q \in PyFilesUnderRoot
            /\ ~InExcludedDir(q, DirsOf(q))
            /\ ~_is_external_library(q)

\* C16: find_all_python_files(root) returns only '.py' files under root, none
\* in a directory below root that is named in the excluded set or whose name
\* starts with '.', none classified external by _is_external_library; and
\* every '.py' file under root that is in no such directory is returned.
C16_FindAllPythonFiles ==
    /\ C16_OnlyProjectFiles
    /\ Listed =>
          \A q \in PyFilesUnderRoot :
              ~InExcludedDir(q, DirsOf(q)) => q \in Returned_files

\* the files missing from the list are those the two substring tests of the
\* code reject: an excluded path segment anywhere in the directory's path, or
\* an external-library marker anywhere in the file's path
MissingOnlyBySubstring ==
    Listed =>
        \A q \in PyFilesUnderRoot :
            (~InExcludedDir(q, DirsOf(q)) /\ q \notin Returned_files) =>
                HasExcludedSegment(dirname(q)) \/ _is_external_library(q)

\* handle_mcp_request has answered mcp_request
Answered == mcp_request # None /\ mcp_response # None
TheRequest == mcp_request[1]
TheResponse == mcp_response[1]

\* C17: a 'tools/list' request is answered, for any request id and whatever
\* requests came before it, with jsonrpc '2.0', the id of the request, and a
\* result.tools that contains a tool named 'get_python_code'.
C17_ToolsList ==
    (Answered /\ MethodOf(TheRequest) = "tools/list") =>
        /\ DOMAIN TheResponse = {"jsonrpc", "id", "result"}
        /\ TheResponse.jsonrpc = "2.0"
        /\ TheResponse.id = TheRequest.id
        /\ DOMAIN TheResponse.result = {"tools"}
        /\ \E k \in 1..Len(TheResponse.result.tools) :
              TheResponse.result.tools[k].name = "get_python_code"

\* a 'tools/list' request with id 2 has been answered after a tool call that
\* ran extract_code
C17_Witness ==
    /\ Answered
    /\ MethodOf(TheRequest) = "tools/list"
    /\ TheRequest.id = Some(2)
    /\ nrequests = 2
    /\ ncalls = 1

\* get_python_code returned its dictionary and the handler passed it on
GaveData ==
    /\ Answered
    /\ CallsExtract(TheRequest)
    /\ "result" \in DOMAIN TheResponse
    /\ ~TheResponse.result.isError
TheData == TheResponse.result.content[2].resource.data

\* the README variants in the repository root that can be read, in the order
\* of the patterns
ReadableVariants(root) ==
    SelectSeq(readme_patterns,
              LAMBDA pattern : /\ isfile(fs, join(root, pattern))
                               /\ fs.readme[join(root, pattern)].readable)

\* the entries of type 'readme' among the additional files
ReadmeEntries(data) == SelectSeq(data.additional_files, LAMBDA e : e.type = "readme")

\* the README named first is in the answer, once and ahead of the other
\* additional files, and its tokens are in token_count together with the
\* target's; nothing else is admitted beyond the limit on top of them
ReadmeIncluded(data, root, first) ==
    LET content == fs.readme[join(root, first)].content
        base == _count_tokens(data.target_file.code) + _count_tokens(content)
    IN  /\ Len(ReadmeEntries(data)) = 1
        /\ data.additional_files[1].type = "readme"
        /\ data.additional_files[1].file_path = first
        /\ data.additional_files[1].code = content
        /\ data.token_count >= base
        /\ data.token_count > base => data.token_count <= data.token_limit
        /\ base > data.token_limit =>
              (data.referenced_files = <<>> /\ Len(data.additional_files) = 1)

\* C18: get_python_code always includes the README: whenever a readable
\* README variant exists in the repository root, additional_files holds
\* exactly one entry of type 'readme', the first variant in the order of the
\* patterns, whatever the token budget, and its tokens are counted before any
\* referenced or additional file is admitted.
C18_ReadmeAlwaysIncluded ==
    (GaveData /\ ReadableVariants(RepoRoot(TheRequest)) # <<>>) =>
        ReadmeIncluded(TheData, RepoRoot(TheRequest),
                       ReadableVariants(RepoRoot(TheRequest))[1])

\* the claim holds whenever the first variant that exists can be read, also
\* when the README alone is over the limit
ReadmeIncludedWhenFirstReadable ==
    (GaveData /\ find_readme_files(fs, RepoRoot(TheRequest)) # <<>>
              /\ fs.readme[find_readme_files(fs, RepoRoot(TheRequest))[1]].readable) =>
        /\ ReadmeIncluded(TheData, RepoRoot(TheRequest),
                          basename(find_readme_files(fs, RepoRoot(TheRequest))[1]))
        /\ ReadableVariants(RepoRoot(TheRequest))[1]
              = basename(find_readme_files(fs, RepoRoot(TheRequest))[1])

\* a README that is over the limit by itself is in the answer
OverLimitReadmeAnswered ==
    /\ GaveData
    /\ TheData.token_count > TheData.token_limit
    /\ Len(ReadmeEntries(TheData)) = 1

\* the target's first import statement is "from M import X", M is the file
\* beside the target that defines X
FirstIsNamedImport ==
    /\ args # None
    /\ exists(fs, TargetFile)
    /\ fs.files[TargetFile].parses
    /\ fs.files[TargetFile].imports # <<>>
    /\ LET stmt == fs.files[TargetFile].imports[1]
       IN  /\ stmt.kind = "from"
           /\ stmt.module # None
           /\ LocateModule(fs, stmt.module[1], dirname(TargetFile)) # None
NamedModuleFile ==
    LocateModule(fs, fs.files[TargetFile].imports[1].module[1], dirname(TargetFile))[1]
NamedSymbol == fs.files[TargetFile].imports[1].names[1]

\* C21: `from M import X` in the target, M an in-project file not visited
\* yet that defines X, gives a reference for the one declaration X tagged
\* 'import', marks M's file visited and has M's own imports resolved.
C21_NamedSymbolImport ==
    (Done /\ FirstIsNamedImport /\ TheArgs.target_object = None
          /\ NamedModuleFile # TargetFile
          /\ _extract_object(fs.files[NamedModuleFile], fs.files[NamedModuleFile].source,
                             NamedSymbol, NamedModuleFile) # None) =>
        /\ returned.kind = "result"
        /\ \E k \in 1..Len(TheResult.referenced_objects) :
              /\ TheResult.referenced_objects[k].name = NamedSymbol
              /\ TheResult.referenced_objects[k].file = NamedModuleFile
              /\ TheResult.referenced_objects[k].reference_type = "import"
        /\ NamedModuleFile \in visited_files
        /\ entered[NamedModuleFile] >= 1

\* no reference is ever added for a named symbol: the call that would add
\* it is never entered
NamedImportAlwaysRaises ==
    (Done /\ FirstIsNamedImport /\ TheArgs.target_object = None) =>
        returned = Returned("raised", "TypeError", None)

\* C22: first hit wins.  The project tree search extracts a file for an
\* imported name only when neither the directory of the importing file nor
\* the host's module resolution located a file for that name, and a target
\* whose only import statement names one module, in a project where no
\* other file imports anything, gets referenced objects from one file at most.
TreeSearchExtracts ==
    /\ Resolving /\ Top.phase = "search"
    /\ Len(referenced_objects') > Len(referenced_objects)
SearchedName ==
    IF CurStmt.kind = "import" THEN CurStmt.names[Top.j] ELSE CurStmt.module[1]
OnlyOneImportStatement ==
    /\ args # None /\ exists(fs, TargetFile) /\ fs.files[TargetFile].parses
    /\ Len(fs.files[TargetFile].imports) = 1
    /\ Len(fs.files[TargetFile].imports[1].names) = 1
    /\ fs.files[TargetFile].imports[1].kind = "import"
    /\ \A p \in DOMAIN fs.files : p # TargetFile => fs.files[p].imports = <<>>
FilesContributing == {referenced_objects[k].file : k \in 1..Len(referenced_objects)}
C22_FirstHitWins ==
    /\ [][TreeSearchExtracts =>
            LocateModule(fs, SearchedName, dirname(Top.file)) = None]_vars
    /\ [](OnlyOneImportStatement => Cardinality(FilesContributing) <= 1)
\* what the code does instead for the twin project: both files contribute
TwinBothContribute ==
    (fs = TwinFS /\ Done) =>
        /\ GaveResult
        /\ {TheResult.referenced_objects[k].file :
               k \in 1..Len(TheResult.referenced_objects)}
             = {PyFile(d_w, n_m), PyFile(d_ws, n_m)}

\* C23: a file extracted by the project tree search has its own imports
\* processed: when import resolution has finished, every file that an
\* "import" statement of a tree-search-extracted file locates, and that the
\* import route can take (not external, parseable, not empty), is visited.
ResolutionFinished == pc = "resolve" /\ stack = <<>>
FoundByTreeSearch(p) ==
    \E k \in 1..Len(referenced_objects) :
        /\ referenced_objects[k].file = p
        /\ referenced_objects[k].reference_type = "project_import"
Importable(q) ==
    /\ ~_is_external_library(q)
    /\ _parse_file(fs, q).ok
    /\ _parse_file(fs, q).source_code # <<>>
ImportsOf(p) ==
    {fs.files[p].imports[k].names[n] :
        <<k, n>> \in {kn \in (1..MaxImports) \X (1..MaxImports) :
                        /\ kn[1] <= Len(fs.files[p].imports)
                        /\ fs.files[p].imports[kn[1]].kind = "import"
                        /\ kn[2] <= Len(fs.files[p].imports[kn[1]].names)}}
C23_TreeSearchRecursion ==
    ResolutionFinished =>
        \A p \in DOMAIN fs.files :
            FoundByTreeSearch(p) =>
                \A name \in ImportsOf(p) :
                    LET located == LocateModule(fs, name, dirname(p))
                    IN  (located # None /\ Importable(located[1])) =>
                            located[1] \in visited_files
\* what the code does instead: the resolver is entered for the file with
\* the file already in its call-stack set, and returns at the cycle guard
TreeSearchRecursionReturnsAtOnce ==
    [][(Resolving /\ Top.phase = "enter" /\ Top.cs = {Top.file}) => stack' = Pop]_vars
TreeSearchedImportsNeverResolved ==
    \A p \in DOMAIN fs.files :
        (FoundByTreeSearch(p) /\ pc = "resolve") => ~ImportsBeingResolved(p)

\* C24: when several classes or functions of the target file are called
\* target_object, the main object is the first of them in source (pre-order)
\* order, so a method of an earlier class wins over a later top-level
\* function; "Object not found" is returned only when none has the name.
NamedDecls(p, object_name) ==
    SelectSeq(fs.files[p].decls, LAMBDA n : n.name = object_name)
ObjectOfDecl(p, node) ==
    [name |-> node.name, file |-> p, type |-> node.type,
     code |-> JoinWith(SubSeq(splitlines(fs.files[p].source), node.lineno, node.end_lineno),
                       <<NL>>),
     docstring |-> node.docstring]
ObjectCall ==
    /\ args # None /\ Wanted(TheArgs.target_object)
    /\ exists(fs, TargetFile) /\ fs.files[TargetFile].parses
C24_FirstPreOrderMatch ==
    ObjectCall =>
        LET matches == NamedDecls(TargetFile, TheArgs.target_object[1])
        IN  IF matches = <<>>
            THEN returned = Returned("error", "Object not found", None)
            ELSE /\ returned.kind # "error"
                 /\ main_object = ObjectOfDecl(TargetFile, matches[1])
\* what the code does instead: ast.walk is breadth first, so the match
\* nearest the top level wins, and among equals the first in source order
ShallowestMatchWins ==
    ObjectCall =>
        LET matches == NamedDecls(TargetFile, TheArgs.target_object[1])
            Shallowest == {k \in 1..Len(matches) :
                              \A m \in 1..Len(matches) : matches[k].depth <= matches[m].depth}
            first == CHOOSE k \in Shallowest : \A m \in Shallowest : k <= m
        IN  matches # <<>> => main_object = ObjectOfDecl(TargetFile, matches[first])

\* C25: a path is classified external exactly when it holds a marker as
\* whole path segments: a directory named venv, .venv, env, site-packages or
\* dist-packages, a path under /usr/lib or /usr/local/lib, or a directory
\* lib (Lib) followed by a segment that starts with "python".  Stated for
\* every file of the project, which are the paths the import route and the
\* exit filter classify.
marker_dirs ==
    { <<"v","e","n","v">>, <<".","v","e","n","v">>, <<"e","n","v">>,
      <<"s","i","t","e","-","p","a","c","k","a","g","e","s">>,
      <<"d","i","s","t","-","p","a","c","k","a","g","e","s">> }
HasMarkerSegment(path) ==
    LET seg == Split(abspath(normpath(path)), SLASH)
        n == Len(seg)
    IN  \/ \E k \in 1..(n - 1) : seg[k] \in marker_dirs
        \/ n > 3 /\ seg[2] = <<"u","s","r">> /\ seg[3] = <<"l","i","b">>
        \/ n > 4 /\ seg[2] = <<"u","s","r">> /\ seg[3] = <<"l","o","c","a","l">>
                 /\ seg[4] = <<"l","i","b">>
        \/ \E k \in 2..(n - 1) :
              /\ seg[k] \in {<<"l","i","b">>, <<"L","i","b">>}
              /\ StartsWith(seg[k + 1], <<"p","y","t","h","o","n">>)
C25_MarkerSegments ==
    \A p \in DOMAIN fs.files : _is_external_library(p) <=> HasMarkerSegment(p)
\* what the code does instead: the file beside the target under /v/myenv is
\* classified external, skipped on the import route, and removed again by the
\* exit filter after the tree search extracted it
MyenvFileDropped ==
    (fs = MyenvFS /\ Done) =>
        /\ _is_external_library(PyFile(d_v, n_m))
        /\ GaveResult /\ TheResult.referenced_objects = <<>>
        /\ extracted[PyFile(d_v, n_m)] = 1

\* C26: within one call visited_files only grows, a step that appends the
\* declarations of a file appends those of one file that was not visited
\* before and is visited after, and referenced_objects never holds more
\* objects of a file than the file has declarations - on the import route
\* and on the tree-search route alike.
ObjectsOf(refs, p) == {k \in 1..Len(refs) : refs[k].file = p}
AppendedIn(old, new) == SubSeq(new, Len(old) + 1, Len(new))
C26_DuplicateExtractionGuard ==
    /\ [][Step =>
            /\ visited_files \subseteq visited_files'
            /\ Len(referenced_objects') > Len(referenced_objects) =>
                 \E p \in DOMAIN fs.files :
                    /\ p \notin visited_files
                    /\ p \in visited_files'
                    /\ \A k \in 1..Len(AppendedIn(referenced_objects, referenced_objects')) :
                          AppendedIn(referenced_objects, referenced_objects')[k].file = p]_vars
    /\ [](\A p \in DOMAIN fs.files :
            Cardinality(ObjectsOf(referenced_objects, p)) <= Len(WalkDecls(fs.files[p])))
\* how many imported names of visited files locate file p
ImportersOf(p) ==
    {<<q, k, n>> \in visited_files \X (1..MaxImports) \X (1..MaxImports) :
        /\ k <= Len(fs.files[q].imports)
        /\ fs.files[q].imports[k].kind = "import"
        /\ n <= Len(fs.files[q].imports[k].names)
        /\ LocateModule(fs, fs.files[q].imports[k].names[n], dirname(q)) = Some(p)}
\* a call has ended in which two imported names led to one file, and a call
\* in which the tree search passed over a visited file: each file's
\* declarations were appended once
C26_Witness ==
    /\ GaveResult
    /\ \/ \E p \in DOMAIN fs.files :
             /\ Cardinality(ImportersOf(p)) >= 2
             /\ extracted[p] = 1
             /\ Cardinality(ObjectsOf(TheResult.referenced_objects, p)) = 1
       \/ /\ fs.kind = "twin"
          /\ extracted[PyFile(d_w, n_m)] = 1 /\ extracted[PyFile(d_ws, n_m)] = 1

\* C27: the target file never references itself: from the start of a call
\* on, no object collected, sorted, kept or returned has the target file as
\* its file, and the target's declarations are never extracted as references.
FromTarget(refs) == {k \in 1..Len(refs) : refs[k].file = TargetFile}
C27_NoSelfReference ==
    (args # None /\ exists(fs, TargetFile)) =>
        /\ FromTarget(referenced_objects) = {}
        /\ FromTarget(sorted_refs) = {}
        /\ FromTarget(kept_refs) = {}
        /\ extracted[TargetFile] = 0
        /\ GaveResult => FromTarget(TheResult.referenced_objects) = {}
\* the target is imported by a file that import resolution went through
ImportedBack ==
    \E q \in DOMAIN fs.files :
        /\ entered[q] >= 1
        /\ ImportsModule(fs, q, ModuleOf(TargetFile))
        /\ LocateModule(fs, ModuleOf(TargetFile), dirname(q)) = Some(TargetFile)
\* a call has returned references for a target that is imported back, by
\* itself or by a file it imports
C27_Witness ==
    /\ GaveResult
    /\ ImportedBack
    /\ TheResult.referenced_objects # <<>>

\* C28: completeness within the depth bound.  In a project whose imports
\* are all same-directory whole-module imports, when import resolution has
\* finished every importable file within five imports of the target
\* (shortest distance) has been extracted, and so has every file that a
\* file within four imports of the target imports, whatever the order of
\* the import statements.
WholeModuleGraph ==
    /\ fs.find_spec = {}
    /\ \A p \in DOMAIN fs.files :
          \A k \in 1..Len(fs.files[p].imports) : fs.files[p].imports[k].kind = "import"
ImportedBy(p) ==
    {LocateModule(fs, name, dirname(p))[1] :
        name \in {n \in ImportsOf(p) : LocateModule(fs, n, dirname(p)) # None}}
RECURSIVE Within(_)
\* the files at most k imports away from the target
Within(k) ==
    IF k = 0 THEN {TargetFile}
    ELSE LET nearer == Within(k - 1)
         IN  nearer \cup UNION {ImportedBy(p) : p \in nearer \cap DOMAIN fs.files}
C28_CompleteWithinDepth ==
    (ResolutionFinished /\ WholeModuleGraph) =>
        /\ \A p \in Within(max_import_depth) \ {TargetFile} :
              Importable(p) => extracted[p] = 1
        /\ \A p \in Within(max_import_depth - 1) :
              \A q \in ImportedBy(p) : Importable(q) => q \in visited_files
\* what the code does instead: a file first reached at depth 5 is extracted
\* without its imports being followed, and when a shorter path meets it
\* later it is passed over as visited; with the short path first nothing is
\* missed
DetourMissesByOrder ==
    (ResolutionFinished /\ fs.kind = "detour") =>
        /\ extracted[DetourPath(5)] = 1
        /\ DetourPath(6) \in Within(2)
        /\ fs = DetourFS(TRUE) => extracted[DetourPath(6)] = 0
        /\ fs = DetourFS(FALSE) => extracted[DetourPath(6)] = 1
CompleteElsewhere == fs.kind # "detour" => C28_CompleteWithinDepth

\* C29: handle_mcp_request answers every request without raising: the
\* response carries jsonrpc '2.0', the id of the request and exactly one of
\* result and error; the error code is -32601 for an unknown method or tool
\* and -32602 for a missing target_file, and a failing tool gives a result
\* with isError true.
WellFormed(response) ==
    /\ DOMAIN response \in {{"jsonrpc", "id", "result"}, {"jsonrpc", "id", "error"}}
    /\ response.jsonrpc = "2.0"
    /\ response.id = TheRequest.id
KnownMethods == {"tools/list", "tools/call", "initialize"}
C29_TotalAndStateless ==
    Answered =>
        /\ WellFormed(TheResponse)
        /\ MethodOf(TheRequest) \notin KnownMethods =>
              /\ "error" \in DOMAIN TheResponse
              /\ TheResponse.error.code = -32601
        /\ (MethodOf(TheRequest) = "tools/call"
              /\ TheRequest.params.name # Some("get_python_code")) =>
              /\ "error" \in DOMAIN TheResponse
              /\ TheResponse.error.code = -32601
        /\ (MethodOf(TheRequest) = "tools/call"
              /\ TheRequest.params.name = Some("get_python_code")
              /\ Missing(Argument(TheRequest, "target_file"))) =>
              /\ "error" \in DOMAIN TheResponse
              /\ TheResponse.error.code = -32602
        /\ (CallsTool(TheRequest) /\ ~GaveData) =>
              /\ "result" \in DOMAIN TheResponse
              /\ TheResponse.result.isError
\* what the code does instead: an exception leaves the handler exactly for a
\* 'tools/call' request whose params are null; every other request is
\* answered in the form the claim gives
EscapesOnNullParams ==
    Answered =>
        IF MethodOf(TheRequest) = "tools/call" /\ TheRequest.params.kind = "null"
        THEN TheResponse = Escaped("AttributeError")
        ELSE WellFormed(TheResponse)

\* C30: the shared budget of get_python_code.  The token_count of the
\* response is the cost of the target, of the README entries and of every
\* entry in referenced_files and additional_files; it is within
\* token_limit whenever target and README are; the referenced entries stand
\* in ascending cost; and when any entry other than a README was admitted
\* the count after it, and so the final count, is within the limit.
CostOf(entries) == SumTokens(entries)
NonReadme(entries) == SelectSeq(entries, LAMBDA e : e.type # "readme")
OnlyReadme(entries) == SelectSeq(entries, LAMBDA e : e.type = "readme")
C30_SharedBudget ==
    GaveData =>
        LET data == TheData
            base == _count_tokens(data.target_file.code)
                      + CostOf(OnlyReadme(data.additional_files))
        IN  /\ data.token_count = base + CostOf(data.referenced_files)
                                    + CostOf(NonReadme(data.additional_files))
            /\ base <= data.token_limit => data.token_count <= data.token_limit
            /\ \A i, j \in 1..Len(data.referenced_files) :
                  i < j => _count_tokens(data.referenced_files[i].code)
                             <= _count_tokens(data.referenced_files[j].code)
            /\ (data.referenced_files # <<>> \/ NonReadme(data.additional_files) # <<>>) =>
                  data.token_count <= data.token_limit
            /\ data.total_files = 1 + Len(data.referenced_files) + Len(data.additional_files)
\* a tool call gave data in which a referenced entry was admitted while
\* another entry the budget had no room for was left out
C30_Witness ==
    /\ GaveData
    /\ TheData.referenced_files # <<>>
    /\ OnlyReadme(TheData.additional_files) # <<>>
    /\ Len(TheData.referenced_files) + Len(NonReadme(TheData.additional_files))
         < Len(TheResult.referenced_objects)
           + Len(additional_files(fs, find_all_python_files(fs, RepoRoot(TheRequest)),
                                  {TargetFile} \cup {TheResult.referenced_objects[k].file :
                                                       k \in 1..Len(TheResult.referenced_objects)},
                                  TargetFile, RepoRoot(TheRequest)))

====
